---- MODULE Spec2Model ----
(***************************************************************************)
(* fair-coin-flipper (programs/fair-coin-flipper/src/lib_FINAL.rs): one    *)
(* game account, its escrow and the wallets that take part, as a state     *)
(* machine whose actions are the six instruction handlers (Spec).          *)
(* coin-flipper (programs/coin-flipper/src/lib_optimized.rs and            *)
(* lib_CORRECTED.rs): one room, its escrow and the global state, as the    *)
(* state machines OptimizedSpec and CorrectedSpec.                         *)
(*                                                                         *)
(* u64 values (lamports, secrets, slots) are little-endian byte strings    *)
(* without most-significant zero bytes (zero is <<>>), so that values up   *)
(* to and beyond u64::MAX are computed exactly.                            *)
(***************************************************************************)
EXTENDS Integers, Sequences, FiniteSets, TLC

(***************************************************************************)
(* u64 arithmetic on byte strings                                          *)
(***************************************************************************)
Byte == 256

RECURSIVE FromInt(_)
FromInt(n) == IF n = 0 THEN <<>> ELSE <<n % Byte>> \o FromInt(n \div Byte)

RECURSIVE Norm(_)
Norm(s) ==
    IF s = <<>> THEN <<>>
    ELSE IF s[Len(s)] = 0 THEN Norm(SubSeq(s, 1, Len(s) - 1))
    ELSE s

Rest(s) == IF s = <<>> THEN <<>> ELSE Tail(s)
Low(s) == IF s = <<>> THEN 0 ELSE Head(s)

RECURSIVE AddCarry(_, _, _)
AddCarry(a, b, c) ==
    IF a = <<>> /\ b = <<>> THEN (IF c = 0 THEN <<>> ELSE <<c>>)
    ELSE LET x == Low(a) + Low(b) + c
         IN  <<x % Byte>> \o AddCarry(Rest(a), Rest(b), x \div Byte)

Add(a, b) == AddCarry(a, b, 0)

RECURSIVE SubBorrow(_, _, _)
SubBorrow(a, b, c) ==
    IF a = <<>> THEN <<>>
    ELSE LET x == Low(a) - Low(b) - c
         IN  <<(x + Byte) % Byte>> \o SubBorrow(Rest(a), Rest(b), IF x < 0 THEN 1 ELSE 0)

RECURSIVE Less(_, _)
Less(a, b) ==
    IF Len(a) # Len(b) THEN Len(a) < Len(b)
    ELSE IF a = <<>> THEN FALSE
    ELSE IF a[Len(a)] # b[Len(b)] THEN a[Len(a)] < b[Len(b)]
    ELSE Less(Norm(SubSeq(a, 1, Len(a) - 1)), Norm(SubSeq(b, 1, Len(b) - 1)))

LessEq(a, b) == a = b \/ Less(a, b)

\* a - b for a >= b
Sub(a, b) == Norm(SubBorrow(a, b, 0))

RECURSIVE MulCarry(_, _, _)
MulCarry(a, k, c) ==
    IF a = <<>> THEN FromInt(c)
    ELSE LET x == Head(a) * k + c
         IN  <<x % Byte>> \o MulCarry(Tail(a), k, x \div Byte)

\* a * k for a machine-sized factor k
MulSmall(a, k) == Norm(MulCarry(a, k, 0))

RECURSIVE DivRem(_, _)
DivRem(a, d) ==
    IF a = <<>> THEN [q |-> <<>>, r |-> 0]
    ELSE LET hi  == DivRem(Tail(a), d)
             cur == hi.r * Byte + Head(a)
         IN  [q |-> <<cur \div d>> \o hi.q, r |-> cur % d]

\* (variant: the quotient is rounded up)
DivRoundUp(a, d) ==
    LET x == DivRem(a, d)
    IN  IF x.r = 0 THEN Norm(x.q) ELSE AddCarry(Norm(x.q), <<>>, 1)

\* floor(a / d) for a machine-sized divisor d
DivSmall(a, d) == Norm(DivRem(a, d).q)

Shift(a) == IF a = <<>> THEN <<>> ELSE <<0>> \o a

RECURSIVE Mul(_, _)
Mul(a, b) ==
    IF b = <<>> THEN <<>>
    ELSE Add(MulSmall(a, Head(b)), Shift(Mul(a, Tail(b))))

U64_BYTES == 8
U64_MAX == [i \in 1..U64_BYTES |-> Byte - 1]

FitsU64(a) == Len(a) <= U64_BYTES

\* u64::wrapping_mul: the product modulo 2^64
wrapping_mul(a, b) ==
    LET p == Mul(a, b)
    IN  Norm(SubSeq(p, 1, IF Len(p) < U64_BYTES THEN Len(p) ELSE U64_BYTES))

\* u64::wrapping_add: the sum modulo 2^64
wrapping_add(a, b) ==
    LET p == Add(a, b)
    IN  Norm(SubSeq(p, 1, IF Len(p) < U64_BYTES THEN Len(p) ELSE U64_BYTES))

\* u64::to_le_bytes: exactly eight bytes
to_le_bytes(a) == [i \in 1..U64_BYTES |-> IF i <= Len(a) THEN a[i] ELSE 0]

\* u64::from_le_bytes
from_le_bytes(b) == Norm(b)

IsEven(a) == Low(a) % 2 = 0

(***************************************************************************)
(* Program constants (lib_FINAL.rs:8-11) and the 3600 s of cancel_game     *)
(***************************************************************************)
HOUSE_FEE_PERCENTAGE == 700
CANCELLATION_FEE_PERCENTAGE == 200
BPS_DENOMINATOR == 10000
MIN_BET_AMOUNT == FromInt(10000000)
\* (variant: no effective upper limit)
MAX_BET_AMOUNT_UNLIMITED == U64_MAX

\* (variant: the limit of the coin-flipper program, 1000 SOL)
MAX_BET_AMOUNT_1000_SOL == Mul(FromInt(1000000), FromInt(1000000))

MAX_BET_AMOUNT == Mul(FromInt(100000), FromInt(1000000))
CANCEL_DELAY == 3600

(***************************************************************************)
(* solana_program::hash::hash is SHA-256.  It is modelled by a fixed       *)
(* deterministic mixing function of all the input bytes with a digest of   *)
(* DIGEST_BYTES bytes; the handlers only ever compare digests and read     *)
(* the parity of a digest's first eight bytes.                             *)
(***************************************************************************)
DIGEST_BYTES == 2

RECURSIVE Mix(_, _)
Mix(h, data) ==
    IF data = <<>> THEN h
    ELSE Mix((h * 131 + Head(data) + 1) % 65521, Tail(data))

hash(data) ==
    LET h == Mix(7, data)
    IN  [i \in 1..DIGEST_BYTES |-> IF i = 1 THEN h % Byte ELSE h \div Byte]

ZeroDigest == [i \in 1..DIGEST_BYTES |-> 0]

CoinSide == {"Heads", "Tails"}

None == <<>>
Some(x) == <<x>>
is_some(o) == o # <<>>
is_none(o) == o = <<>>
unwrap(o) == o[1]

generate_commitment(choice, secret) ==
    LET choice_byte == IF choice = "Heads" THEN 0 ELSE 1
        commitment_data == <<choice_byte>> \o <<0, 0, 0, 0, 0, 0, 0>> \o to_le_bytes(secret)
        first_hash == hash(commitment_data)
        final_hash == hash(first_hash)
    IN  final_hash

\* hash_bytes[0..8] of a digest, as the model's digest is shorter than eight bytes
first_u64(hash_bytes) ==
    from_le_bytes(SubSeq(hash_bytes, 1,
        IF Len(hash_bytes) < U64_BYTES THEN Len(hash_bytes) ELSE U64_BYTES))

generate_coin_flip(secret_a, secret_b, slot, timestamp) ==
    LET secret_entropy == wrapping_mul(secret_a, secret_b)
        slot_entropy == slot
        time_entropy == timestamp
        entropy_data == to_le_bytes(secret_entropy) \o to_le_bytes(slot_entropy)
                            \o to_le_bytes(time_entropy)
        first_hash == hash(entropy_data)
        final_hash == hash(first_hash)
        random_value == first_u64(final_hash)
    IN  IF IsEven(random_value) THEN "Heads" ELSE "Tails"

tiebreaker(secret_a, secret_b, slot, player_a, player_b) ==
    LET entropy_mix == wrapping_add(wrapping_mul(secret_a, secret_b), slot)
        tiebreaker_data == to_le_bytes(entropy_mix) \o to_le_bytes(slot)
        tiebreaker_hash == hash(tiebreaker_data)
        tiebreaker_value == first_u64(tiebreaker_hash)
    IN  IF IsEven(tiebreaker_value) THEN player_a ELSE player_b

\* The match of determine_winner falls to its `_` arm
is_tie(choice_a, choice_b, coin_result) ==
    LET a_correct == choice_a = coin_result
        b_correct == choice_b = coin_result
    IN  ~(a_correct /\ ~b_correct) /\ ~(~a_correct /\ b_correct)

\* (variant: the two deciding arms are swapped)
determine_winner_swapped(choice_a, choice_b, coin_result, secret_a, secret_b, slot, player_a, player_b) ==
    LET a_correct == choice_a = coin_result
        b_correct == choice_b = coin_result
    IN  IF a_correct /\ ~b_correct THEN player_b
        ELSE IF ~a_correct /\ b_correct THEN player_a
        ELSE tiebreaker(secret_a, secret_b, slot, player_a, player_b)

\* (variant: a tie is decided by whether both were right)
determine_winner_coin_tie(choice_a, choice_b, coin_result, secret_a, secret_b, slot, player_a, player_b) ==
    LET a_correct == choice_a = coin_result
        b_correct == choice_b = coin_result
    IN  IF a_correct /\ ~b_correct THEN player_a
        ELSE IF ~a_correct /\ b_correct THEN player_b
        ELSE IF a_correct THEN player_a ELSE player_b

determine_winner(choice_a, choice_b, coin_result, secret_a, secret_b, slot, player_a, player_b) ==
    LET a_correct == choice_a = coin_result
        b_correct == choice_b = coin_result
    IN  IF a_correct /\ ~b_correct THEN player_a
        ELSE IF ~a_correct /\ b_correct THEN player_b
        ELSE tiebreaker(secret_a, secret_b, slot, player_a, player_b)

(***************************************************************************)
(* State                                                                   *)
(***************************************************************************)
VARIABLES
    game,       \* the Game account, or NoGame before create_game
    lamports,   \* balance of every wallet and of the escrow PDA
    clock,      \* Clock::get(): slot and unix_timestamp
    events,     \* how many events of each kind were emitted so far
    last,       \* the last instruction: handler, result, events it emitted
    room,       \* coin-flipper: the GameRoom account, or NoRoom before create_room
    global_state \* coin-flipper: the GlobalState account, or NoGlobalState

vars == <<game, lamports, clock, events, last, room, global_state>>

\* Bounds of the model
MaxTicks == 1
MaxCancelled == 2

Wallets == {"alice", "bob", "carol", "house"}
Signers == {"alice", "bob", "carol"}
Escrow == "escrow"
DefaultPubkey == "default"
GameId == 1

NoGame == [status |-> "Uninitialized"]
NoRoom == [status |-> "Uninitialized"]
NoGlobalState == [authority |-> DefaultPubkey]

EventKinds == {"GameCreated", "PlayerJoined", "CommitmentMade", "ChoiceRevealed",
               "GameResolved", "GameCancelled"}

\* Inputs the instructions are called with
BetSample == {Sub(MIN_BET_AMOUNT, FromInt(1)), MIN_BET_AMOUNT, Add(MIN_BET_AMOUNT, FromInt(1)),
              MAX_BET_AMOUNT, Add(MAX_BET_AMOUNT, FromInt(1))}
SecretSample == {FromInt(0), FromInt(1), FromInt(2), FromInt(3), U64_MAX}
CommittedSecrets == {FromInt(2), FromInt(3)}
\* digests of strong secrets, and one of a weak secret (which its owner cannot open)
DigestSample == {ZeroDigest, generate_commitment("Heads", FromInt(1))}
                    \cup {generate_commitment(c, s) : c \in CoinSide, s \in CommittedSecrets}
Creators == {"alice", "carol"}
HouseWallets == {"house"}

InitialLamports ==
    [w \in Wallets \cup {Escrow} |->
        IF w \in {"alice", "bob"} THEN Add(MAX_BET_AMOUNT, MIN_BET_AMOUNT)
        ELSE IF w = "carol" THEN Sub(MIN_BET_AMOUNT, FromInt(1))
        ELSE <<>>]

(***************************************************************************)
(* A handler's result: err is "Ok" or the error it returned; game and      *)
(* lamports are the values the handler holds when it returns.              *)
(***************************************************************************)
Ok(g, l, emitted) == [err |-> "Ok", game |-> g, lamports |-> l, emitted |-> emitted]
Err(e, g, l) == [err |-> e, game |-> g, lamports |-> l, emitted |-> <<>>]

\* system_program::transfer: fails when `from` holds less than `amount`
transfer(l, from, to, amount) ==
    IF Less(l[from], amount) THEN [ok |-> FALSE, lamports |-> l]
    ELSE LET debited == [l EXCEPT ![from] = Sub(@, amount)]
         IN  [ok |-> TRUE, lamports |-> [debited EXCEPT ![to] = Add(@, amount)]]

create_game(l, clk, player_a, game_id, bet_amount, house_wallet) ==
    IF Less(bet_amount, MIN_BET_AMOUNT) THEN Err("BetTooLow", NoGame, l)
    ELSE IF Less(MAX_BET_AMOUNT, bet_amount) THEN Err("BetTooHigh", NoGame, l)
    ELSE
    LET g == [game_id |-> game_id,
              player_a |-> player_a,
              player_b |-> DefaultPubkey,
              bet_amount |-> bet_amount,
              house_wallet |-> house_wallet,
              commitment_a |-> ZeroDigest,
              commitment_b |-> ZeroDigest,
              commitments_complete |-> FALSE,
              choice_a |-> None,
              secret_a |-> None,
              choice_b |-> None,
              secret_b |-> None,
              status |-> "WaitingForPlayer",
              created_at |-> clk.unix_timestamp,
              resolved_at |-> None,
              coin_result |-> None,
              winner |-> None,
              house_fee |-> <<>>]
        t == transfer(l, player_a, Escrow, bet_amount)
    IN  IF ~t.ok THEN Err("TransferFailed", g, l)
        ELSE Ok(g, t.lamports,
                <<[name |-> "GameCreated", player_a |-> g.player_a, bet_amount |-> bet_amount]>>)

\* (variant: the creator may join their own game)
self_play_allowed(player_b, player_a) == FALSE

\* require!(player_b.key() != game.player_a, CannotPlayAgainstYourself) fails
self_play(player_b, player_a) == player_b = player_a

\* (variant: the status advances but the joiner's key is not stored)
set_player_b_status_only(g, player_b) == [g EXCEPT !.status = "PlayersReady"]

\* (variant: the joiner's key is written to player_a)
set_player_b_as_a(g, player_b) == [g EXCEPT !.player_a = player_b, !.status = "PlayersReady"]

\* "Set Player B data": game.player_b and game.status
set_player_b(g, player_b) == [g EXCEPT !.player_b = player_b, !.status = "PlayersReady"]

\* (variant: a game can be joined as long as it is not resolved)
joinable_unless_resolved(status) == status # "Resolved"

\* require!(game.status == GameStatus::WaitingForPlayer, InvalidGameStatus)
joinable(status) == status = "WaitingForPlayer"

join_game(g, l, player_b) ==
    IF ~joinable(g.status) THEN Err("InvalidGameStatus", g, l)
    ELSE IF self_play(player_b, g.player_a) THEN Err("CannotPlayAgainstYourself", g, l)
    ELSE
    LET g1 == set_player_b(g, player_b)
        t == transfer(l, player_b, Escrow, g1.bet_amount)
    IN  IF ~t.ok THEN Err("TransferFailed", g1, l)
        ELSE Ok(g1, t.lamports, <<[name |-> "PlayerJoined", player_b |-> g1.player_b]>>)

\* (variant: the all-zero digest is accepted)
zero_commitment_accepted(commitment) == FALSE

\* require!(commitment != [0; 32], InvalidCommitment) fails
zero_commitment(commitment) == commitment = ZeroDigest

\* (variant: a commitment may be replaced)
already_committed_ignored(stored) == FALSE

\* require!(game.commitment_x == [0; 32], AlreadyCommitted) fails
already_committed(stored) == stored # ZeroDigest

\* (variant: one commitment is enough)
both_committed_either(g) == g.commitment_a # ZeroDigest \/ g.commitment_b # ZeroDigest

\* (variant: the commitments count as complete once player B has committed)
both_committed_after_b(g) == g.commitment_b # ZeroDigest

\* "Check if both players have committed"
both_committed(g) == g.commitment_a # ZeroDigest /\ g.commitment_b # ZeroDigest

make_commitment(g, l, player, commitment) ==
    IF ~(g.status = "PlayersReady" \/ g.status = "CommitmentsReady")
    THEN Err("InvalidGameStatus", g, l)
    ELSE IF zero_commitment(commitment) THEN Err("InvalidCommitment", g, l)
    ELSE
    LET is_player_a == player = g.player_a
        is_player_b == player = g.player_b
    IN  IF ~(is_player_a \/ is_player_b) THEN Err("NotAPlayer", g, l)
        ELSE IF is_player_a /\ already_committed(g.commitment_a)
        THEN Err("AlreadyCommitted", g, l)
        ELSE IF ~is_player_a /\ already_committed(g.commitment_b)
        THEN Err("AlreadyCommitted", g, l)
        ELSE
        LET g1 == IF is_player_a THEN [g EXCEPT !.commitment_a = commitment]
                  ELSE [g EXCEPT !.commitment_b = commitment]
            g2 == IF both_committed(g1)
                  THEN [g1 EXCEPT !.commitments_complete = TRUE, !.status = "CommitmentsReady"]
                  ELSE g1
        IN  Ok(g2, l, <<[name |-> "CommitmentMade", player |-> player,
                         commitment |-> commitment]>>)

\* The accounts an instruction is given besides the game, the escrow and the signer
Passed(a, b, h) == [player_a |-> a, player_b |-> b, house_wallet |-> h]

\* (variant: the status is set but resolved_at is left unset)
store_results_without_time(g, coin_result, winner, house_fee, resolved_at) ==
    [g EXCEPT !.coin_result = Some(coin_result),
              !.winner = Some(winner),
              !.house_fee = house_fee,
              !.status = "Resolved"]

\* "Store results": the five assignments of the resolution block
store_results(g, coin_result, winner, house_fee, resolved_at) ==
    [g EXCEPT !.coin_result = Some(coin_result),
              !.winner = Some(winner),
              !.house_fee = house_fee,
              !.status = "Resolved",
              !.resolved_at = Some(resolved_at)]

\* The resolution block of reveal_choice (repeated verbatim in resolve_game_manual):
\* g has both reveals; `emitted` are the events the handler emitted before it
resolution(g, l, clk, acc, emitted) ==
    LET choice_a == unwrap(g.choice_a)
        secret_a == unwrap(g.secret_a)
        choice_b == unwrap(g.choice_b)
        secret_b == unwrap(g.secret_b)
        coin_result == generate_coin_flip(secret_a, secret_b, FromInt(clk.slot),
                                          FromInt(clk.unix_timestamp))
        winner == determine_winner(choice_a, choice_b, coin_result, secret_a, secret_b,
                                   FromInt(clk.slot), g.player_a, g.player_b)
        total_pot == MulSmall(g.bet_amount, 2)
        house_fee == DivSmall(MulSmall(total_pot, HOUSE_FEE_PERCENTAGE), BPS_DENOMINATOR)
        winner_payout == Sub(total_pot, house_fee)
        g1 == store_results(g, coin_result, winner, house_fee, clk.unix_timestamp)
        winner_account == IF winner = g1.player_a THEN acc.player_a ELSE acc.player_b
        t1 == transfer(l, Escrow, winner_account, winner_payout)
        t2 == transfer(t1.lamports, Escrow, acc.house_wallet, house_fee)
    IN  IF ~t1.ok THEN Err("TransferFailed", g1, l)
        ELSE IF ~t2.ok THEN Err("TransferFailed", g1, t1.lamports)
        ELSE Ok(g1, t2.lamports,
                emitted \o <<[name |-> "GameResolved", winner |-> winner,
                              coin_result |-> coin_result, winner_payout |-> winner_payout,
                              house_fee |-> house_fee, resolved_at |-> clk.unix_timestamp]>>)

\* (variant: the digest of player A is expected from either player)
expected_commitment_always_a(g, is_player_a) == g.commitment_a

\* The digest the caller's reveal has to reproduce
expected_commitment(g, is_player_a) ==
    IF is_player_a THEN g.commitment_a ELSE g.commitment_b

\* (variant: the recomputed digest is not compared)
commitment_unchecked(actual_commitment, expected) == TRUE

\* require!(actual_commitment == expected_commitment, InvalidCommitment)
commitment_matches(actual_commitment, expected) == actual_commitment = expected

\* (variant: only zero and u64::MAX are refused)
weak_secret_above_zero(secret) == ~Less(<<>>, secret) \/ secret = U64_MAX

\* require!(secret > 1, WeakSecret) or require!(secret != u64::MAX, WeakSecret) fails
weak_secret(secret) == ~Less(FromInt(1), secret) \/ secret = U64_MAX

\* (variant: a player may reveal again)
already_revealed_ignored(recorded_choice) == FALSE

\* require!(game.choice_x.is_none(), AlreadyRevealed) fails
already_revealed(recorded_choice) == ~is_none(recorded_choice)

\* (variant: resolution is left to resolve_game_manual)
auto_resolve_never(g) == FALSE

\* "Auto-resolve when both revealed"
auto_resolve_due(g) == is_some(g.choice_a) /\ is_some(g.choice_b)

reveal_choice(g, l, clk, player, choice, secret, acc) ==
    IF ~(g.status = "CommitmentsReady" \/ g.status = "RevealingPhase")
    THEN Err("InvalidGameStatus", g, l)
    ELSE IF ~g.commitments_complete THEN Err("InvalidGameStatus", g, l)
    ELSE
    LET is_player_a == player = g.player_a
        is_player_b == player = g.player_b
        actual_commitment == generate_commitment(choice, secret)
    IN  IF ~(is_player_a \/ is_player_b) THEN Err("NotAPlayer", g, l)
        ELSE IF weak_secret(secret) THEN Err("WeakSecret", g, l)
        ELSE IF ~commitment_matches(actual_commitment, expected_commitment(g, is_player_a))
        THEN Err("InvalidCommitment", g, l)
        ELSE IF is_player_a /\ already_revealed(g.choice_a) THEN Err("AlreadyRevealed", g, l)
        ELSE IF ~is_player_a /\ already_revealed(g.choice_b) THEN Err("AlreadyRevealed", g, l)
        ELSE
        LET g1 == IF is_player_a
                  THEN [g EXCEPT !.choice_a = Some(choice), !.secret_a = Some(secret)]
                  ELSE [g EXCEPT !.choice_b = Some(choice), !.secret_b = Some(secret)]
            g2 == [g1 EXCEPT !.status = "RevealingPhase"]
            revealed == <<[name |-> "ChoiceRevealed", player |-> player,
                           choice |-> choice, secret |-> secret]>>
        IN  IF auto_resolve_due(g2)
            THEN resolution(g2, l, clk, acc, revealed)
            ELSE Ok(g2, l, revealed)

resolve_game_manual(g, l, clk, acc) ==
    IF ~(is_some(g.choice_a) /\ is_some(g.choice_b)) THEN Err("NotReadyForResolution", g, l)
    ELSE IF g.status = "Resolved" THEN Err("AlreadyResolved", g, l)
    ELSE resolution(g, l, clk, acc, <<>>)

\* (variant: a game cannot be cancelled once a reveal has been made)
cancellable_before_reveal(status) == status \notin {"Resolved", "RevealingPhase"}

\* require!(game.status != GameStatus::Resolved, AlreadyResolved)
cancellable(status) == status # "Resolved"

\* (variant: cancellation is allowed from exactly 3600 s on)
too_early_before_deadline(time_passed) == time_passed < CANCEL_DELAY

\* (variant: the comparison is inverted)
too_early_inverted(time_passed) == time_passed > CANCEL_DELAY

\* require!(time_passed > 3600, TooEarlyToCancel) fails
too_early(time_passed) == ~(time_passed > CANCEL_DELAY)

\* (variant: the house is paid one cancellation fee when two players are refunded)
cancel_game_single_fee(g, l, clk, acc) ==
    LET time_passed == clk.unix_timestamp - g.created_at
        cancellation_fee == DivSmall(MulSmall(g.bet_amount, CANCELLATION_FEE_PERCENTAGE),
                                     BPS_DENOMINATOR)
        refund_amount == Sub(g.bet_amount, cancellation_fee)
        \* creator-only branch
        a1 == transfer(l, Escrow, acc.player_a, refund_amount)
        a2 == transfer(a1.lamports, Escrow, acc.house_wallet, cancellation_fee)
        \* both-players branch
        b1 == transfer(l, Escrow, acc.player_a, refund_amount)
        b2 == transfer(b1.lamports, Escrow, acc.player_b, refund_amount)
        b3 == transfer(b2.lamports, Escrow, acc.house_wallet, cancellation_fee)
        cancelled(l1) ==
            Ok([g EXCEPT !.status = "Cancelled"], l1,
               <<[name |-> "GameCancelled", cancelled_at |-> clk.unix_timestamp,
                  total_fees_collected |->
                      IF g.player_b # DefaultPubkey THEN MulSmall(cancellation_fee, 2)
                      ELSE cancellation_fee]>>)
    IN  IF too_early(time_passed) THEN Err("TooEarlyToCancel", g, l)
        ELSE IF g.status = "Resolved" THEN Err("AlreadyResolved", g, l)
        ELSE IF g.status = "WaitingForPlayer"
        THEN IF ~a1.ok THEN Err("TransferFailed", g, l)
             ELSE IF ~a2.ok THEN Err("TransferFailed", g, a1.lamports)
             ELSE cancelled(a2.lamports)
        ELSE IF g.player_b # DefaultPubkey
        THEN IF ~b1.ok THEN Err("TransferFailed", g, l)
             ELSE IF ~b2.ok THEN Err("TransferFailed", g, b1.lamports)
             ELSE IF ~b3.ok THEN Err("TransferFailed", g, b2.lamports)
             ELSE cancelled(b3.lamports)
        ELSE cancelled(l)

cancel_game(g, l, clk, acc) ==
    LET time_passed == clk.unix_timestamp - g.created_at
        cancellation_fee == DivSmall(MulSmall(g.bet_amount, CANCELLATION_FEE_PERCENTAGE),
                                     BPS_DENOMINATOR)
        refund_amount == Sub(g.bet_amount, cancellation_fee)
        \* creator-only branch
        a1 == transfer(l, Escrow, acc.player_a, refund_amount)
        a2 == transfer(a1.lamports, Escrow, acc.house_wallet, cancellation_fee)
        \* both-players branch
        b1 == transfer(l, Escrow, acc.player_a, refund_amount)
        b2 == transfer(b1.lamports, Escrow, acc.player_b, refund_amount)
        b3 == transfer(b2.lamports, Escrow, acc.house_wallet, MulSmall(cancellation_fee, 2))
        cancelled(l1) ==
            Ok([g EXCEPT !.status = "Cancelled"], l1,
               <<[name |-> "GameCancelled", cancelled_at |-> clk.unix_timestamp,
                  total_fees_collected |->
                      IF g.player_b # DefaultPubkey THEN MulSmall(cancellation_fee, 2)
                      ELSE cancellation_fee]>>)
    IN  IF too_early(time_passed) THEN Err("TooEarlyToCancel", g, l)
        ELSE IF ~cancellable(g.status) THEN Err("AlreadyResolved", g, l)
        ELSE IF g.status = "WaitingForPlayer"
        THEN IF ~a1.ok THEN Err("TransferFailed", g, l)
             ELSE IF ~a2.ok THEN Err("TransferFailed", g, a1.lamports)
             ELSE cancelled(a2.lamports)
        ELSE IF g.player_b # DefaultPubkey
        THEN IF ~b1.ok THEN Err("TransferFailed", g, l)
             ELSE IF ~b2.ok THEN Err("TransferFailed", g, b1.lamports)
             ELSE IF ~b3.ok THEN Err("TransferFailed", g, b2.lamports)
             ELSE cancelled(b3.lamports)
        ELSE cancelled(l)

(***************************************************************************)
(* What an instruction leaves behind.  Anchor writes the Game account back *)
(* only when the handler returns Ok, and a failed instruction (a failed    *)
(* require!, a failed transfer CPI) aborts the whole transaction: account  *)
(* data, lamports and logged events are as before the call.                *)
(***************************************************************************)
\* (variant: what the handler wrote is kept when it fails)
exit_write_through(pre_game, pre_lamports, r) ==
    [game |-> r.game, lamports |-> r.lamports, emitted |-> r.emitted]

exit(pre_game, pre_lamports, r) ==
    IF r.err = "Ok"
    THEN [game |-> r.game, lamports |-> r.lamports, emitted |-> r.emitted]
    ELSE [game |-> pre_game, lamports |-> pre_lamports, emitted |-> <<>>]

Count(emitted, kind) == Cardinality({i \in DOMAIN emitted : emitted[i].name = kind})

Step(op, r) ==
    LET post == exit(game, lamports, r)
    IN  /\ game' = post.game
        /\ lamports' = post.lamports
        /\ events' = [k \in EventKinds |-> events[k] + Count(post.emitted, k)]
        /\ last' = [op |-> op, err |-> r.err, emitted |-> post.emitted]
        /\ UNCHANGED <<clock, room, global_state>>

\* The unchecked AccountInfo accounts of RevealChoice, ResolveGameManual and
\* CancelGame: the recorded keys, or the caller's own wallet in place of each
PassedSample(g, caller) ==
    {Passed(g.player_a, IF g.player_b = DefaultPubkey THEN caller ELSE g.player_b,
            g.house_wallet),
     Passed(caller, caller, caller)}

Init ==
    /\ game = NoGame
    /\ lamports = InitialLamports
    /\ clock = [slot |-> 0, unix_timestamp |-> 0]
    /\ events = [k \in EventKinds |-> 0]
    /\ last = [op |-> "init", err |-> "Ok", emitted |-> <<>>]
    /\ room = NoRoom
    /\ global_state = NoGlobalState

CreateGame ==
    /\ game = NoGame
    /\ \E player_a \in Creators, bet_amount \in BetSample, house_wallet \in HouseWallets :
           Step("create_game",
                create_game(lamports, clock, player_a, GameId, bet_amount, house_wallet))

JoinGame ==
    /\ game # NoGame
    /\ \E player_b \in Signers : Step("join_game", join_game(game, lamports, player_b))

MakeCommitment ==
    /\ game # NoGame
    /\ \E player \in Signers, commitment \in DigestSample :
           Step("make_commitment", make_commitment(game, lamports, player, commitment))

RevealChoice ==
    /\ game # NoGame
    /\ \E player \in Signers, choice \in CoinSide, secret \in SecretSample :
       \E acc \in PassedSample(game, player) :
           Step("reveal_choice", reveal_choice(game, lamports, clock, player, choice, secret, acc))

ResolveGameManual ==
    /\ game # NoGame
    /\ \E resolver \in Signers : \E acc \in PassedSample(game, resolver) :
           Step("resolve_game_manual", resolve_game_manual(game, lamports, clock, acc))

CancelGame ==
    /\ game # NoGame
    /\ events["GameCancelled"] < MaxCancelled
    /\ \E canceller \in Signers : \E acc \in PassedSample(game, canceller) :
           Step("cancel_game", cancel_game(game, lamports, clock, acc))

\* Time passes between transactions; the clock is counted from the game's creation
Tick ==
    /\ game # NoGame
    /\ clock.slot < MaxTicks
    /\ \E d \in {CANCEL_DELAY, CANCEL_DELAY + 1} :
           clock' = [slot |-> clock.slot + 1, unix_timestamp |-> clock.unix_timestamp + d]
    /\ last' = [op |-> "tick", err |-> "Ok", emitted |-> <<>>]
    /\ UNCHANGED <<game, lamports, events, room, global_state>>

Next ==
    \/ CreateGame
    \/ JoinGame
    \/ MakeCommitment
    \/ RevealChoice
    \/ ResolveGameManual
    \/ CancelGame
    \/ Tick

Spec == Init /\ [][Next]_vars

(***************************************************************************)
(* Properties                                                              *)
(***************************************************************************)
Created == game # NoGame
Terminal == Created /\ game.status \in {"Resolved", "Cancelled"}
Strong(secret) == Less(FromInt(1), secret) /\ secret # U64_MAX
EnteringResolved == Created /\ game.status # "Resolved" /\ game'.status = "Resolved"
Pot(g) == MulSmall(g.bet_amount, 2)
HouseFee(g) == DivSmall(MulSmall(Pot(g), HOUSE_FEE_PERCENTAGE), BPS_DENOMINATOR)
CancellationFee(g) ==
    DivSmall(MulSmall(g.bet_amount, CANCELLATION_FEE_PERCENTAGE), BPS_DENOMINATOR)
Participants == {game.player_a, game.player_b}
RevealPending == Created /\ game.commitments_complete
                     /\ game.status \in {"CommitmentsReady", "RevealingPhase"}
NotRevealed(p) == IF p = game.player_a THEN is_none(game.choice_a) ELSE is_none(game.choice_b)
Stored(p) == IF p = game.player_a THEN game.commitment_a ELSE game.commitment_b

\* C1: once the status is Resolved or Cancelled every later instruction is
\* rejected: the game, the balances and the event counts stay as they are.
C1_TerminalIsFinal ==
    [][Terminal =>
          /\ game' = game
          /\ lamports' = lamports
          /\ events' = events
          /\ (last'.op # "tick" => last'.err # "Ok")]_vars

\* C2: the escrow holds bet_amount while WaitingForPlayer, 2 * bet_amount while
\* PlayersReady, CommitmentsReady or RevealingPhase, and 0 once Resolved or
\* Cancelled (and 0 before the game exists).
C2_EscrowMatchesStatus ==
    lamports[Escrow] =
        IF ~Created THEN <<>>
        ELSE IF game.status = "WaitingForPlayer" THEN game.bet_amount
        ELSE IF game.status \in {"PlayersReady", "CommitmentsReady", "RevealingPhase"}
        THEN Pot(game)
        ELSE <<>>

C2_Witness ==
    /\ Created
    /\ game.status = "Cancelled"
    /\ game.player_b # DefaultPubkey
    /\ game.bet_amount = Add(MIN_BET_AMOUNT, FromInt(1))
    /\ lamports[Escrow] = <<>>

\* C3: the step that resolves a game credits winner_payout to the wallet recorded
\* as game.winner and house_fee to the wallet recorded as game.house_wallet,
\* whatever accounts the caller passed.
C3_PayoutToRecordedAccounts ==
    [][EnteringResolved =>
          /\ lamports'[unwrap(game'.winner)] =
                 Add(lamports[unwrap(game'.winner)], Sub(Pot(game), HouseFee(game)))
          /\ lamports'[game.house_wallet] = Add(lamports[game.house_wallet], HouseFee(game))]_vars

\* C4: a successful cancel_game credits each refund to the player who funded it
\* and the cancellation fees to the recorded house wallet, whatever accounts the
\* caller passed.
C4_RefundToRecordedAccounts ==
    [][(Created /\ ~Terminal /\ game'.status = "Cancelled") =>
          LET refund == Sub(game.bet_amount, CancellationFee(game))
              joined == game.player_b # DefaultPubkey
          IN  /\ lamports'[game.player_a] = Add(lamports[game.player_a], refund)
              /\ joined => lamports'[game.player_b] = Add(lamports[game.player_b], refund)
              /\ lamports'[game.house_wallet] =
                     Add(lamports[game.house_wallet],
                         MulSmall(CancellationFee(game), IF joined THEN 2 ELSE 1))]_vars

C6_BothRevealedImpliesResolved ==
    (Created /\ is_some(game.choice_a) /\ is_some(game.choice_b)) => game.status = "Resolved"

C6_Witness ==
    /\ Created
    /\ is_some(game.choice_a) /\ is_some(game.choice_b)
    /\ game.status = "Resolved"
    /\ last.op = "reveal_choice" /\ last.err = "Ok"

\* C7: a resolved game (and any game that paid a winner) has two recorded reveals,
\* each reproducing that player's stored non-zero commitment, each with a strong
\* secret.
C7_ResolvedHasTwoValidReveals ==
    (Created /\ (game.status = "Resolved" \/ is_some(game.winner)
                     \/ events["GameResolved"] > 0)) =>
        /\ is_some(game.choice_a) /\ is_some(game.secret_a)
        /\ is_some(game.choice_b) /\ is_some(game.secret_b)
        /\ game.commitment_a # ZeroDigest
        /\ game.commitment_b # ZeroDigest
        /\ generate_commitment(unwrap(game.choice_a), unwrap(game.secret_a)) = game.commitment_a
        /\ generate_commitment(unwrap(game.choice_b), unwrap(game.secret_b)) = game.commitment_b
        /\ Strong(unwrap(game.secret_a))
        /\ Strong(unwrap(game.secret_b))

C7_Witness ==
    /\ Created
    /\ game.status = "Resolved"
    /\ events["GameResolved"] = 1
    /\ unwrap(game.secret_a) # unwrap(game.secret_b)
    /\ generate_commitment(unwrap(game.choice_a), unwrap(game.secret_a)) = game.commitment_a
    /\ generate_commitment(unwrap(game.choice_b), unwrap(game.secret_b)) = game.commitment_b

\* What reveal_choice by participant p would return in the current state, and the
\* game it would leave behind
Reveal(p, choice, secret, acc) == reveal_choice(game, lamports, clock, p, choice, secret, acc)
After(r) == exit(game, lamports, r).game
StillUnrevealed(g, p) ==
    IF p = g.player_a THEN is_none(g.choice_a) /\ is_none(g.secret_a)
    ELSE is_none(g.choice_b) /\ is_none(g.secret_b)

\* C8 as stated: for a participant who has not revealed, with both commitments
\* set, reveal_choice(choice, secret) succeeds iff generate_commitment(choice,
\* secret) is the stored digest, and a mismatch fails with InvalidCommitment and
\* leaves choice and secret unset.
C8_RevealSucceedsIffDigestMatches ==
    RevealPending =>
        \A p \in Participants, choice \in CoinSide, secret \in SecretSample :
            NotRevealed(p) =>
                \A acc \in PassedSample(game, p) :
                    LET r == Reveal(p, choice, secret, acc)
                        matches == generate_commitment(choice, secret) = Stored(p)
                    IN  /\ (r.err = "Ok") <=> matches
                        /\ ~matches => (r.err = "InvalidCommitment"
                                            /\ StillUnrevealed(After(r), p))

\* C8 amended: a weak secret (0, 1, u64::MAX) fails with WeakSecret whether or not
\* the digest matches; a strong secret succeeds iff the digest matches and
\* otherwise fails with InvalidCommitment; every failure leaves the caller's
\* choice and secret unset.
C8_StrongRevealSucceedsIffDigestMatches ==
    RevealPending =>
        \A p \in Participants, choice \in CoinSide, secret \in SecretSample :
            NotRevealed(p) =>
                \A acc \in PassedSample(game, p) :
                    LET r == Reveal(p, choice, secret, acc)
                        matches == generate_commitment(choice, secret) = Stored(p)
                    IN  /\ ~Strong(secret) => r.err = "WeakSecret"
                        /\ Strong(secret) => ((r.err = "Ok") <=> matches)
                        /\ (Strong(secret) /\ ~matches) => r.err = "InvalidCommitment"
                        /\ r.err # "Ok" => StillUnrevealed(After(r), p)

\* one player has revealed, and a reveal that did not match was refused
C8_Witness ==
    /\ RevealPending
    /\ game.status = "RevealingPhase"
    /\ last.op = "reveal_choice"
    /\ last.err = "InvalidCommitment"
    /\ \E p \in Participants : NotRevealed(p) /\ StillUnrevealed(game, p)

\* C9: when the two choices differ the winner is the one player whose choice is
\* the coin result, for all secrets and slots, and the tie-break arm is not taken.
C9_DifferingChoicesOneWinner ==
    /\ (Created /\ game.status = "Resolved"
            /\ unwrap(game.choice_a) # unwrap(game.choice_b)) =>
           /\ ~is_tie(unwrap(game.choice_a), unwrap(game.choice_b), unwrap(game.coin_result))
           /\ game.winner = Some(IF unwrap(game.choice_a) = unwrap(game.coin_result)
                                 THEN game.player_a ELSE game.player_b)
    /\ \A choice_a \in CoinSide, choice_b \in CoinSide, coin_result \in CoinSide :
       \A secret_a \in SecretSample, secret_b \in SecretSample, slot \in 0..MaxTicks :
           choice_a # choice_b =>
               /\ ~is_tie(choice_a, choice_b, coin_result)
               /\ determine_winner(choice_a, choice_b, coin_result, secret_a, secret_b,
                                   FromInt(slot), "alice", "bob")
                      = IF choice_a = coin_result THEN "alice" ELSE "bob"

C9_Witness ==
    /\ Created
    /\ game.status = "Resolved"
    /\ unwrap(game.choice_a) # unwrap(game.choice_b)
    /\ unwrap(game.coin_result) = unwrap(game.choice_b)
    /\ game.winner = Some(game.player_b)

\* C10: when the second reveal makes both choices the same side, the winner is
\* one of the two players, is the tie-break's choice, and is the same for either
\* coin result and for any timestamp of the resolving call.
C10_TieBreakIgnoresCoin ==
    RevealPending =>
        \A p \in Participants, choice \in CoinSide, secret \in CommittedSecrets :
        \A acc \in PassedSample(game, p) :
            LET r == Reveal(p, choice, secret, acc)
                g == r.game
            IN  (r.err = "Ok" /\ g.status = "Resolved" /\ g.choice_a = g.choice_b) =>
                    LET w == unwrap(g.winner)
                    IN  /\ w \in {g.player_a, g.player_b}
                        /\ is_tie(unwrap(g.choice_a), unwrap(g.choice_b), unwrap(g.coin_result))
                        /\ w = tiebreaker(unwrap(g.secret_a), unwrap(g.secret_b),
                                          FromInt(clock.slot), g.player_a, g.player_b)
                        /\ \A coin_result \in CoinSide :
                               determine_winner(unwrap(g.choice_a), unwrap(g.choice_b),
                                                coin_result, unwrap(g.secret_a),
                                                unwrap(g.secret_b), FromInt(clock.slot),
                                                g.player_a, g.player_b) = w
                        /\ \A d \in 0..3 :
                               reveal_choice(game, lamports,
                                             [clock EXCEPT !.unix_timestamp = @ + d],
                                             p, choice, secret, acc).game.winner = g.winner

\* both players committed and revealed (Heads, 2)
C10_Witness ==
    /\ Created
    /\ game.status = "Resolved"
    /\ game.choice_a = Some("Heads") /\ game.choice_b = Some("Heads")
    /\ game.secret_a = Some(FromInt(2)) /\ game.secret_b = Some(FromInt(2))
    /\ game.commitment_a = game.commitment_b
    /\ unwrap(game.winner) \in {game.player_a, game.player_b}

\* Balances after moving amount out of from, and into to
Debit(l, from, amount) == [l EXCEPT ![from] = Sub(@, amount)]
Credit(l, to, amount) == [l EXCEPT ![to] = Add(@, amount)]
ResolvedEvent(emitted) == emitted[Len(emitted)]

\* C11: the step that resolves a game splits pot = 2 * bet_amount into
\* house_fee = floor(pot * 700 / 10000) and winner_payout = pot - house_fee, so
\* that winner_payout + house_fee = pot; the escrow held exactly the pot and is
\* drained to 0 by two transfers of winner_payout and of the stored
\* game.house_fee; a bet of 10,000,000 gives 20,000,000, 1,400,000, 18,600,000.
C11_PotSplitsExactly ==
    [][EnteringResolved =>
          LET pot == Add(game.bet_amount, game.bet_amount)
              fee == game'.house_fee
              ev == ResolvedEvent(last'.emitted)
              payout == ev.winner_payout
          IN  /\ ev.name = "GameResolved"
              /\ ev.house_fee = fee
              /\ Add(payout, fee) = pot
              /\ LessEq(MulSmall(fee, 10000), MulSmall(pot, 700))
              /\ Less(MulSmall(pot, 700), MulSmall(Add(fee, FromInt(1)), 10000))
              /\ lamports[Escrow] = pot
              /\ lamports'[Escrow] = <<>>
              /\ \E winner_account, house_account \in Wallets :
                     lamports' = Credit(Credit(Debit(lamports, Escrow, pot),
                                               winner_account, payout),
                                        house_account, fee)
              /\ game.bet_amount = FromInt(10000000) =>
                     /\ pot = FromInt(20000000)
                     /\ fee = FromInt(1400000)
                     /\ payout = FromInt(18600000)]_vars

C11_Witness ==
    /\ Created
    /\ game.status = "Resolved"
    /\ last.op = "reveal_choice"
    /\ last.err = "Ok"
    /\ game.bet_amount = Add(MIN_BET_AMOUNT, FromInt(1))
    /\ game.house_fee = FromInt(1400000)
    /\ ResolvedEvent(last.emitted).winner_payout = FromInt(18600002)

SuccessfulCancel == Created /\ last'.op = "cancel_game" /\ last'.err = "Ok"

\* C12: every successful cancel_game pays bet_amount - floor(bet_amount * 200 /
\* 10000) once per funded player and floor(bet_amount * 200 / 10000) per funded
\* player to the house (one refund and one fee for a lone creator, two of each
\* for two joined players); the refunds and fees add up to the escrow balance
\* before the call, and the escrow is left at 0.
C12_CancelRefundsEveryFundedPlayer ==
    [][SuccessfulCancel =>
          LET fee == CancellationFee(game)
              refund == Sub(game.bet_amount, fee)
              joined == game.player_b # DefaultPubkey
              before == lamports[Escrow]
              drained == Debit(lamports, Escrow, before)
          IN  /\ LessEq(MulSmall(fee, 10000), MulSmall(game.bet_amount, 200))
              /\ Less(MulSmall(game.bet_amount, 200), MulSmall(Add(fee, FromInt(1)), 10000))
              /\ lamports'[Escrow] = <<>>
              /\ IF joined
                 THEN /\ Add(MulSmall(refund, 2), MulSmall(fee, 2)) = before
                      /\ \E account_a, account_b, house_account \in Wallets :
                             lamports' = Credit(Credit(Credit(drained, account_a, refund),
                                                       account_b, refund),
                                                house_account, MulSmall(fee, 2))
                 ELSE /\ Add(refund, fee) = before
                      /\ \E account_a, house_account \in Wallets :
                             lamports' = Credit(Credit(drained, account_a, refund),
                                                house_account, fee)]_vars

Elapsed == clock.unix_timestamp - game.created_at

\* C13: while at most 3600 seconds have passed since game.created_at,
\* cancel_game fails with TooEarlyToCancel in every status, for every caller and
\* every passed account, and leaves the game and the balances as they were; a
\* cancel_game that succeeds, and a Cancelled game, are found only when more
\* than 3600 seconds have passed.
C13_CancelOnlyAfterDeadline ==
    Created =>
        /\ Elapsed <= 3600 =>
               \A caller \in Signers :
                   \A acc \in PassedSample(game, caller) :
                       LET r == cancel_game(game, lamports, clock, acc)
                           post == exit(game, lamports, r)
                       IN  /\ r.err = "TooEarlyToCancel"
                           /\ post.game = game
                           /\ post.lamports = lamports
                           /\ post.emitted = <<>>
        /\ (last.op = "cancel_game" /\ last.err = "Ok") => Elapsed > 3600
        /\ game.status = "Cancelled" => Elapsed > 3600
        /\ (last.op = "cancel_game" /\ Elapsed <= 3600) => last.err = "TooEarlyToCancel"

C13_Witness ==
    /\ Created
    /\ Elapsed = 3600
    /\ game.status = "RevealingPhase"
    /\ last.op = "cancel_game"
    /\ last.err = "TooEarlyToCancel"

\* Scheduling: somebody keeps calling cancel_game while it can be called
LiveSpec == Spec /\ WF_vars(CancelGame)

Overdue == Created /\ ~Terminal /\ Elapsed > 3600
Emptied == Terminal /\ lamports[Escrow] = <<>>

\* C14: no game holds funds forever.  A game that is not yet Resolved or
\* Cancelled (only the creator joined, both joined, one or both committed, one
\* player revealed, a digest that cannot be opened) and is more than 3600
\* seconds old (a) can be cancelled: cancel_game succeeds for every caller and
\* every passed account, (b) stays so until it is Resolved or Cancelled with an
\* escrow balance of 0, and (c) is Resolved or Cancelled with an escrow balance
\* of 0 after any cancel_game step.  Under weak fairness of CancelGame these are
\* the premises of the rule WF1 for Overdue ~> Emptied.
C14_NoFundsHeldForever ==
    /\ [](Overdue =>
             /\ events["GameCancelled"] < MaxCancelled
             /\ \A canceller \in Signers :
                    \A acc \in PassedSample(game, canceller) :
                        LET r == cancel_game(game, lamports, clock, acc)
                        IN  /\ r.err = "Ok"
                            /\ r.game.status = "Cancelled"
                            /\ r.lamports[Escrow] = <<>>)
    /\ [][Overdue =>
             /\ Overdue' \/ Emptied'
             /\ last'.op = "cancel_game" => Emptied']_vars

C14_Witness ==
    /\ Created
    /\ game.status = "Cancelled"
    /\ Elapsed > 3600
    /\ is_some(game.choice_a)
    /\ is_none(game.choice_b)
    /\ game.commitment_b = generate_commitment("Heads", FromInt(1))
    /\ lamports[Escrow] = <<>>

Other(p) == IF p = game.player_a THEN game.player_b ELSE game.player_a
ChoiceOf(g, p) == IF p = g.player_a THEN g.choice_a ELSE g.choice_b
SecretOf(g, p) == IF p = g.player_a THEN g.secret_a ELSE g.secret_b

\* The game with the reveal of `first` taken back and (choice, secret) recorded
\* for the other player: the same two reveals, made in the other order
OtherOrder(g, first, choice, secret) ==
    IF first = g.player_a
    THEN [g EXCEPT !.choice_a = None, !.secret_a = None,
                   !.choice_b = Some(choice), !.secret_b = Some(secret)]
    ELSE [g EXCEPT !.choice_b = None, !.secret_b = None,
                   !.choice_a = Some(choice), !.secret_a = Some(secret)]

\* Slots and timestamps at which the resolving reveal_choice may be executed
LaterClocks(clk) ==
    {[slot |-> clk.slot + ds, unix_timestamp |-> clk.unix_timestamp + dt] :
         ds \in 0..1, dt \in 0..1}

\* C15: with the same two commitments and the same two revealed (choice,
\* secret) pairs, the recorded coin_result and winner are the same whichever
\* player reveals second and at whatever slot and timestamp the second
\* reveal_choice is executed.
C15_OutcomeFixedByReveals ==
    (Created /\ game.status = "RevealingPhase") =>
        \A first \in Participants, choice \in CoinSide, secret \in SecretSample :
            LET second == Other(first)
                honest == Passed(game.player_a, game.player_b, game.house_wallet)
                r == reveal_choice(game, lamports, clock, second, choice, secret, honest)
                swapped == OtherOrder(game, first, choice, secret)
            IN  (is_some(ChoiceOf(game, first)) /\ r.err = "Ok") =>
                    \A clk \in LaterClocks(clock) :
                        LET s == reveal_choice(swapped, lamports, clk, first,
                                               unwrap(ChoiceOf(game, first)),
                                               unwrap(SecretOf(game, first)), honest)
                            t == reveal_choice(game, lamports, clk, second, choice, secret,
                                               honest)
                        IN  /\ s.err = "Ok" /\ t.err = "Ok"
                            /\ s.game.coin_result = r.game.coin_result
                            /\ s.game.winner = r.game.winner
                            /\ t.game.coin_result = r.game.coin_result
                            /\ t.game.winner = r.game.winner

CommitOpen == Created /\ game.status \in {"PlayersReady", "CommitmentsReady"}
Commit(p, commitment) == make_commitment(game, lamports, p, commitment)

\* C16 (as stated): make_commitment fails with InvalidGameStatus in every status
\* other than PlayersReady and CommitmentsReady; in those two it fails with
\* NotAPlayer for every signer who is neither player and with AlreadyCommitted
\* for every player whose commitment is already non-zero.
C16_CommitErrorsAsStated ==
    Created =>
        \A p \in Signers, commitment \in DigestSample :
            LET r == Commit(p, commitment)
            IN  /\ ~CommitOpen => r.err = "InvalidGameStatus"
                /\ (CommitOpen /\ p \notin Participants) => r.err = "NotAPlayer"
                /\ (CommitOpen /\ p \in Participants /\ Stored(p) # ZeroDigest) =>
                       r.err = "AlreadyCommitted"

\* C16 (amended): each commitment is written at most once, by its own player,
\* after both have joined.  make_commitment fails with InvalidGameStatus in
\* every status other than PlayersReady and CommitmentsReady; in those two a
\* non-zero digest fails with NotAPlayer from a signer who is neither player and
\* with AlreadyCommitted from a player whose commitment is already non-zero (the
\* all-zero digest fails with InvalidCommitment before either check); a
\* successful call writes the caller's own, previously zero, commitment and
\* leaves the other one alone; no step changes a stored non-zero commitment.
C16_CommitmentWrittenOnce ==
    /\ [](Created =>
             \A p \in Signers, commitment \in DigestSample :
                 LET r == Commit(p, commitment)
                     post == exit(game, lamports, r).game
                 IN  /\ ~CommitOpen => r.err = "InvalidGameStatus"
                     /\ (CommitOpen /\ commitment # ZeroDigest /\ p \notin Participants) =>
                            r.err = "NotAPlayer"
                     /\ (CommitOpen /\ commitment # ZeroDigest /\ p \in Participants
                             /\ Stored(p) # ZeroDigest) => r.err = "AlreadyCommitted"
                     /\ (CommitOpen /\ commitment = ZeroDigest) => r.err = "InvalidCommitment"
                     /\ (p \notin Participants \/ Stored(p) # ZeroDigest) => r.err # "Ok"
                     /\ r.err = "Ok" =>
                            /\ game.player_b # DefaultPubkey
                            /\ IF p = game.player_a
                               THEN /\ post.commitment_a = commitment
                                    /\ post.commitment_b = game.commitment_b
                               ELSE /\ post.commitment_b = commitment
                                    /\ post.commitment_a = game.commitment_a)
    /\ [][Created =>
             /\ game.commitment_a # ZeroDigest => game'.commitment_a = game.commitment_a
             /\ game.commitment_b # ZeroDigest => game'.commitment_b = game.commitment_b]_vars

C16_Witness ==
    /\ Created
    /\ game.status = "CommitmentsReady"
    /\ game.commitment_a # ZeroDigest
    /\ game.commitment_b # game.commitment_a
    /\ last.op = "make_commitment"
    /\ last.err = "AlreadyCommitted"

CommitmentsSet(g) ==
    (IF g.commitment_a # ZeroDigest THEN 1 ELSE 0) + (IF g.commitment_b # ZeroDigest THEN 1 ELSE 0)

\* C17: make_commitment with the all-zero digest fails in every status and for
\* every caller, and leaves both commitments, commitments_complete and the
\* status as they were; so a stored zero commitment means "not yet committed":
\* the non-zero commitments are exactly the accepted make_commitment calls, and
\* commitments_complete says that both are non-zero.
C17_ZeroDigestRejected ==
    Created =>
        /\ \A p \in Signers :
               LET r == Commit(p, ZeroDigest)
                   post == exit(game, lamports, r).game
               IN  /\ r.err # "Ok"
                   /\ CommitOpen => r.err = "InvalidCommitment"
                   /\ r.game.commitment_a = game.commitment_a
                   /\ r.game.commitment_b = game.commitment_b
                   /\ post.commitment_a = game.commitment_a
                   /\ post.commitment_b = game.commitment_b
                   /\ post.commitments_complete = game.commitments_complete
                   /\ post.status = game.status
        /\ events["CommitmentMade"] = CommitmentsSet(game)
        /\ game.commitments_complete <=> CommitmentsSet(game) = 2
        /\ (last.op = "make_commitment" /\ last.err = "Ok") => CommitmentsSet(game) >= 1

C17_Witness ==
    /\ Created
    /\ game.status = "PlayersReady"
    /\ game.commitment_a # ZeroDigest
    /\ game.commitment_b = ZeroDigest
    /\ last.op = "make_commitment"
    /\ last.err = "InvalidCommitment"

HasRevealed(p) == Created /\ p \in Participants /\ is_some(ChoiceOf(game, p))

\* C18: once a player has revealed, every further reveal_choice by that player
\* fails, with the same pair or another one, in RevealingPhase and after
\* resolution (a repetition of the accepted pair in RevealingPhase fails with
\* AlreadyRevealed); the game and the balances stay as they were.  No step
\* changes a recorded choice or secret, a game is resolved at most once, and
\* once Resolved its coin_result, winner, house_fee and resolved_at never change
\* and no further payout leaves the escrow.
C18_RevealOnlyOnce ==
    /\ [](Created =>
             /\ events["GameResolved"] <= 1
             /\ \A p \in Signers, choice \in CoinSide, secret \in SecretSample :
                    HasRevealed(p) =>
                        \A acc \in PassedSample(game, p) :
                            LET r == Reveal(p, choice, secret, acc)
                                post == exit(game, lamports, r)
                            IN  /\ r.err # "Ok"
                                /\ post.game = game
                                /\ post.lamports = lamports
                                /\ post.emitted = <<>>
                                /\ (game.status = "RevealingPhase"
                                        /\ Some(choice) = ChoiceOf(game, p)
                                        /\ Some(secret) = SecretOf(game, p)) =>
                                       r.err = "AlreadyRevealed")
    /\ [][Created =>
             /\ is_some(game.choice_a) =>
                    game'.choice_a = game.choice_a /\ game'.secret_a = game.secret_a
             /\ is_some(game.choice_b) =>
                    game'.choice_b = game.choice_b /\ game'.secret_b = game.secret_b
             /\ game.status = "Resolved" =>
                    /\ game'.coin_result = game.coin_result
                    /\ game'.winner = game.winner
                    /\ game'.house_fee = game.house_fee
                    /\ game'.resolved_at = game.resolved_at
                    /\ lamports' = lamports
                    /\ events'["GameResolved"] = events["GameResolved"]]_vars

C18_Witness ==
    /\ Created
    /\ game.status = "RevealingPhase"
    /\ is_some(game.choice_b)
    /\ is_none(game.choice_a)
    /\ last.op = "reveal_choice"
    /\ last.err = "AlreadyRevealed"

WeakSample == {secret \in SecretSample : ~Strong(secret)}
RecordedSecretsStrong ==
    /\ is_some(game.secret_a) => Strong(unwrap(game.secret_a))
    /\ is_some(game.secret_b) => Strong(unwrap(game.secret_b))

\* C19 (as stated): reveal_choice with secret 0, 1 or u64::MAX fails with
\* WeakSecret, always, and records nothing.
C19_WeakSecretAlwaysWeakSecretError ==
    Created =>
        \A p \in Signers, choice \in CoinSide, secret \in WeakSample :
            \A acc \in PassedSample(game, p) :
                LET r == Reveal(p, choice, secret, acc)
                IN  r.err = "WeakSecret" /\ After(r) = game

\* C19 (amended): reveal_choice with secret 0, 1 or u64::MAX always fails and
\* records nothing; it fails with WeakSecret whenever the status and signer
\* checks pass (status CommitmentsReady or RevealingPhase with both commitments,
\* signer one of the two players), also when the digest of (choice, secret) is
\* the caller's stored commitment and also when the caller has revealed
\* already; otherwise it fails with InvalidGameStatus or NotAPlayer.  A
\* recorded secret is always in 2..u64::MAX-1.
C19_WeakSecretNeverAccepted ==
    Created =>
        /\ RecordedSecretsStrong
        /\ \A p \in Signers, choice \in CoinSide, secret \in WeakSample :
               \A acc \in PassedSample(game, p) :
                   LET r == Reveal(p, choice, secret, acc)
                       post == exit(game, lamports, r)
                   IN  /\ r.err # "Ok"
                       /\ r.game = game
                       /\ post.game = game
                       /\ post.lamports = lamports
                       /\ ~RevealPending => r.err = "InvalidGameStatus"
                       /\ (RevealPending /\ p \notin Participants) => r.err = "NotAPlayer"
                       /\ (RevealPending /\ p \in Participants) => r.err = "WeakSecret"

C19_Witness ==
    /\ Created
    /\ game.status = "CommitmentsReady"
    /\ game.commitment_a = generate_commitment("Heads", FromInt(1))
    /\ last.op = "reveal_choice"
    /\ last.err = "WeakSecret"

BetInRange(bet_amount) ==
    /\ LessEq(FromInt(10000000), bet_amount)
    /\ LessEq(bet_amount, Mul(FromInt(100000), FromInt(1000000)))

\* C20: create_game succeeds only for 10,000,000 <= bet_amount <=
\* 100,000,000,000 (and then whenever the creator holds bet_amount); below the
\* range it fails with BetTooLow and above it with BetTooHigh, and a failed call
\* creates no game and moves no funds; after a successful call the game is
\* WaitingForPlayer with player_b unset, zero commitments, no reveals and no
\* resolution fields, and exactly bet_amount has moved from the creator to the
\* escrow.  Every game that exists has a bet_amount in the range.
C20_CreateGameChecksBet ==
    /\ Created => BetInRange(game.bet_amount)
    /\ ~Created =>
           \A player_a \in Signers, bet_amount \in BetSample, house_wallet \in HouseWallets :
               LET r == create_game(lamports, clock, player_a, GameId, bet_amount,
                                    house_wallet)
                   post == exit(game, lamports, r)
               IN  /\ r.err = "Ok" <=>
                          (BetInRange(bet_amount) /\ LessEq(bet_amount, lamports[player_a]))
                   /\ Less(bet_amount, FromInt(10000000)) => r.err = "BetTooLow"
                   /\ Less(Mul(FromInt(100000), FromInt(1000000)), bet_amount) =>
                          r.err = "BetTooHigh"
                   /\ r.err # "Ok" =>
                          /\ post.game = NoGame
                          /\ post.lamports = lamports
                          /\ post.emitted = <<>>
                   /\ r.err = "Ok" =>
                          /\ post.game.status = "WaitingForPlayer"
                          /\ post.game.player_a = player_a
                          /\ post.game.player_b = DefaultPubkey
                          /\ post.game.bet_amount = bet_amount
                          /\ post.game.commitment_a = ZeroDigest
                          /\ post.game.commitment_b = ZeroDigest
                          /\ ~post.game.commitments_complete
                          /\ is_none(post.game.choice_a) /\ is_none(post.game.secret_a)
                          /\ is_none(post.game.choice_b) /\ is_none(post.game.secret_b)
                          /\ is_none(post.game.coin_result)
                          /\ is_none(post.game.winner)
                          /\ is_none(post.game.resolved_at)
                          /\ post.game.house_fee = <<>>
                          /\ post.lamports =
                                 Credit(Debit(lamports, player_a, bet_amount), Escrow,
                                        bet_amount)
    /\ (last.op = "create_game" /\ last.err = "Ok") =>
           /\ game.status = "WaitingForPlayer"
           /\ game.player_b = DefaultPubkey
           /\ lamports[Escrow] = game.bet_amount
           /\ lamports[game.player_a] = Sub(InitialLamports[game.player_a], game.bet_amount)

C20_Witness ==
    /\ Created
    /\ last.op = "create_game"
    /\ last.err = "Ok"
    /\ game.bet_amount = Mul(FromInt(100000), FromInt(1000000))
    /\ lamports[Escrow] = game.bet_amount
    /\ events["GameCreated"] = 1

Joined == Created /\ game.player_b # DefaultPubkey

\* C21: join_game succeeds only in WaitingForPlayer and for a joiner other than
\* player_a (and then whenever the joiner holds bet_amount); it sets player_b
\* and status PlayersReady, changes nothing else of the game and moves exactly
\* bet_amount from the joiner to the escrow; it fails with InvalidGameStatus in
\* every other status and with CannotPlayAgainstYourself for player_a.  A set
\* player_b differs from player_a, is never changed again, and a game is joined
\* at most once.
C21_JoinOnceByAnother ==
    /\ [](Created =>
             /\ Joined => game.player_b # game.player_a
             /\ events["PlayerJoined"] = (IF Joined THEN 1 ELSE 0)
             /\ Joined => game.status # "WaitingForPlayer"
             /\ game.status \notin {"WaitingForPlayer", "Cancelled"} => Joined
             /\ \A player_b \in Signers :
                    LET r == join_game(game, lamports, player_b)
                        post == exit(game, lamports, r)
                        bet == game.bet_amount
                    IN  /\ r.err = "Ok" <=>
                               /\ game.status = "WaitingForPlayer"
                               /\ player_b # game.player_a
                               /\ LessEq(bet, lamports[player_b])
                        /\ game.status # "WaitingForPlayer" => r.err = "InvalidGameStatus"
                        /\ (game.status = "WaitingForPlayer" /\ player_b = game.player_a) =>
                               r.err = "CannotPlayAgainstYourself"
                        /\ r.err # "Ok" => post.game = game /\ post.lamports = lamports
                        /\ r.err = "Ok" =>
                               /\ post.game = [game EXCEPT !.player_b = player_b,
                                                           !.status = "PlayersReady"]
                               /\ post.lamports =
                                      Credit(Debit(lamports, player_b, bet), Escrow, bet))
    /\ [][Joined => game'.player_b = game.player_b]_vars

C21_Witness ==
    /\ Joined
    /\ game.status = "PlayersReady"
    /\ game.player_a = "alice"
    /\ game.player_b = "bob"
    /\ last.op = "join_game"
    /\ last.err = "Ok"
    /\ lamports[Escrow] = Add(game.bet_amount, game.bet_amount)

\* Bets around the range and around the first value whose pot * 700 leaves u64
OverflowSample ==
    LET limit == DivSmall(U64_MAX, 2 * HOUSE_FEE_PERCENTAGE)
    IN  {MIN_BET_AMOUNT, MAX_BET_AMOUNT, Add(MAX_BET_AMOUNT, FromInt(1)),
         limit, Add(limit, FromInt(1)), U64_MAX}
FundedLamports == [w \in Wallets \cup {Escrow} |-> IF w = "alice" THEN U64_MAX ELSE <<>>]

\* The products, differences and the doubled fee of the resolution block and of
\* cancel_game, computed exactly, are u64 values
ArithmeticFits(bet_amount) ==
    LET total_pot == MulSmall(bet_amount, 2)
        pot_scaled == MulSmall(total_pot, HOUSE_FEE_PERCENTAGE)
        house_fee == DivSmall(pot_scaled, BPS_DENOMINATOR)
        bet_scaled == MulSmall(bet_amount, CANCELLATION_FEE_PERCENTAGE)
        cancellation_fee == DivSmall(bet_scaled, BPS_DENOMINATOR)
    IN  /\ FitsU64(total_pot)
        /\ FitsU64(pot_scaled)
        /\ FitsU64(bet_scaled)
        /\ LessEq(house_fee, total_pot)
        /\ LessEq(cancellation_fee, bet_amount)
        /\ FitsU64(MulSmall(cancellation_fee, 2))

\* C22: for every bet_amount that create_game accepts, 2 * bet_amount, pot * 700,
\* bet_amount * 200 and cancellation_fee * 2 are at most u64::MAX and
\* bet_amount - cancellation_fee and pot - house_fee are not negative; every
\* game that exists has such a bet_amount, and every balance and the stored
\* house_fee are u64 values.
C22_ArithmeticStaysInU64 ==
    /\ \A bet_amount \in BetSample \cup OverflowSample :
           create_game(FundedLamports, clock, "alice", GameId, bet_amount, "house").err = "Ok"
               => ArithmeticFits(bet_amount)
    /\ Created =>
           /\ ArithmeticFits(game.bet_amount)
           /\ FitsU64(game.house_fee)
           /\ \A w \in Wallets \cup {Escrow} : FitsU64(lamports[w])

C22_Witness ==
    /\ Created
    /\ game.status = "Resolved"
    /\ game.bet_amount = Mul(FromInt(100000), FromInt(1000000))
    /\ game.house_fee = Mul(FromInt(14000), FromInt(1000000))
    /\ create_game(FundedLamports, clock, "alice", GameId, game.bet_amount, "house").err = "Ok"

ResolutionUnset(g) ==
    /\ is_none(g.coin_result)
    /\ is_none(g.winner)
    /\ is_none(g.resolved_at)
    /\ g.house_fee = <<>>
ResolutionSet(g) ==
    /\ is_some(g.coin_result) /\ unwrap(g.coin_result) \in CoinSide
    /\ is_some(g.winner) /\ unwrap(g.winner) \in {g.player_a, g.player_b}
    /\ is_some(g.resolved_at)
    /\ g.house_fee # <<>>

\* C23: the resolution record is written exactly once: coin_result, winner and
\* resolved_at are unset and house_fee is 0 in every status other than Resolved
\* (Cancelled included); in Resolved all four are set, with winner one of the
\* two players and resolved_at the time of the step that entered Resolved; no
\* later step changes them or leaves Resolved.
C23_ResolutionWrittenOnce ==
    /\ [](Created =>
             /\ game.status # "Resolved" => ResolutionUnset(game)
             /\ game.status = "Resolved" => ResolutionSet(game))
    /\ [][Created =>
             /\ EnteringResolved =>
                    /\ ResolutionUnset(game)
                    /\ ResolutionSet(game')
                    /\ game'.resolved_at = Some(clock.unix_timestamp)
             /\ game.status = "Resolved" =>
                    /\ game'.status = "Resolved"
                    /\ game'.coin_result = game.coin_result
                    /\ game'.winner = game.winner
                    /\ game'.resolved_at = game.resolved_at
                    /\ game'.house_fee = game.house_fee]_vars

C23_Witness ==
    /\ Created
    /\ game.status = "Resolved"
    /\ ResolutionSet(game)
    /\ game.resolved_at = Some(3601)
    /\ last.op = "cancel_game"
    /\ last.err = "AlreadyResolved"

\* The status changes of the life cycle: one phase forward, or to Cancelled
Forward ==
    {<<"WaitingForPlayer", "PlayersReady">>, <<"PlayersReady", "CommitmentsReady">>,
     <<"CommitmentsReady", "RevealingPhase">>, <<"RevealingPhase", "Resolved">>}
        \cup {<<s, "Cancelled">> :
                  s \in {"WaitingForPlayer", "PlayersReady", "CommitmentsReady", "RevealingPhase"}}

\* C24: whenever a step changes the status, it moves one phase forward along
\* WaitingForPlayer, PlayersReady, CommitmentsReady, RevealingPhase, Resolved,
\* or from one of the first four to Cancelled: none moves back or skips a
\* phase.  In WaitingForPlayer and PlayersReady no reveal is recorded, nothing
\* has been resolved, and the only step that takes funds out of the escrow is
\* the one to Cancelled.
C24_StatusMovesForward ==
    /\ [](Created /\ game.status \in {"WaitingForPlayer", "PlayersReady"} =>
             /\ is_none(game.choice_a) /\ is_none(game.secret_a)
             /\ is_none(game.choice_b) /\ is_none(game.secret_b)
             /\ events["ChoiceRevealed"] = 0
             /\ events["GameResolved"] = 0
             /\ ResolutionUnset(game))
    /\ [][/\ ~Created => game'.status \in {"Uninitialized", "WaitingForPlayer"}
          /\ (Created /\ game'.status # game.status) =>
                 <<game.status, game'.status>> \in Forward
          /\ (Created /\ game.status \in {"WaitingForPlayer", "PlayersReady"}
                  /\ game'.status # "Cancelled") =>
                 \A w \in Wallets : LessEq(lamports'[w], lamports[w])]_vars

C24_Witness ==
    /\ Created
    /\ game.status = "Cancelled"
    /\ is_some(game.choice_a)
    /\ is_none(game.choice_b)
    /\ events["ChoiceRevealed"] = 1

CreationFields(g) == <<g.game_id, g.player_a, g.bet_amount, g.house_wallet, g.created_at>>

\* C25: no step of join_game, make_commitment, reveal_choice,
\* resolve_game_manual or cancel_game changes game_id, player_a, bet_amount,
\* house_wallet or created_at.  The bet_amount written by create_game is the
\* amount the joiner escrows, half the pot that the resolving step pays out and
\* the base of the fee reported by a cancellation.
C25_CreationFieldsFixed ==
    /\ [](Created =>
             /\ game.game_id = GameId
             /\ game.created_at = 0
             /\ game.player_a \in Creators
             /\ game.house_wallet \in HouseWallets
             /\ game.bet_amount \in BetSample)
    /\ [][Created =>
             /\ CreationFields(game') = CreationFields(game)
             /\ (last'.op = "join_game" /\ last'.err = "Ok") =>
                    lamports'[Escrow] = Add(lamports[Escrow], game.bet_amount)
             /\ EnteringResolved =>
                    Add(ResolvedEvent(last'.emitted).winner_payout, game'.house_fee) =
                        Add(game.bet_amount, game.bet_amount)
             /\ (~Terminal /\ game'.status = "Cancelled") =>
                    last'.emitted[1].total_fees_collected =
                        MulSmall(CancellationFee(game), IF Joined THEN 2 ELSE 1)]_vars

C25_Witness ==
    /\ Created
    /\ game.status = "Cancelled"
    /\ game.player_a = "alice"
    /\ game.player_b = "bob"
    /\ game.bet_amount = Add(MIN_BET_AMOUNT, FromInt(1))
    /\ game.commitments_complete
    /\ clock.unix_timestamp = 3601

Emits(kind) == events'[kind] > events[kind]

\* C26: GameResolved is emitted at most once per game, and only by the
\* reveal_choice that records the second reveal; GameCancelled is emitted at
\* most once per game, and its total_fees_collected is what left the escrow in
\* that call besides the refunds; no game emits both.
C26_TerminalEventsOnce ==
    /\ [](/\ events["GameResolved"] <= 1
          /\ events["GameCancelled"] <= 1
          /\ events["GameResolved"] + events["GameCancelled"] <= 1)
    /\ [][/\ Emits("GameResolved") =>
                 /\ last'.op = "reveal_choice"
                 /\ events'["ChoiceRevealed"] = 2
                 /\ events["ChoiceRevealed"] = 1
                 /\ is_some(game'.choice_a) /\ is_some(game'.choice_b)
          /\ Emits("GameCancelled") =>
                 LET ev == last'.emitted[Len(last'.emitted)]
                     refund == Sub(game.bet_amount, CancellationFee(game))
                     refunds == MulSmall(refund, IF Joined THEN 2 ELSE 1)
                 IN  /\ last'.op = "cancel_game"
                     /\ ev.name = "GameCancelled"
                     /\ Add(lamports'[Escrow], Add(refunds, ev.total_fees_collected)) =
                            lamports[Escrow]]_vars

OneRevealed ==
    /\ Created
    /\ game.status = "RevealingPhase"
    /\ is_some(game.choice_a) # is_some(game.choice_b)
\* The same game before anybody revealed
Unrevealed(g) ==
    [g EXCEPT !.choice_a = None, !.secret_a = None, !.choice_b = None, !.secret_b = None,
              !.status = "CommitmentsReady"]

\* C27: more than 3600 seconds after creation, cancel_game succeeds for every
\* caller, participant or not, from WaitingForPlayer, PlayersReady,
\* CommitmentsReady and RevealingPhase, and fails with AlreadyResolved from
\* Resolved.  In RevealingPhase with one reveal recorded the accounts passed as
\* player_a and player_b each receive bet_amount - floor(bet_amount * 200 /
\* 10000) and the house account twice the fee: the same balances as if nobody
\* had revealed, whoever revealed and whatever was revealed.
C27_CancelAfterDeadline ==
    (Created /\ Elapsed > 3600) =>
        \A canceller \in Signers :
            \A acc \in PassedSample(game, canceller) :
                LET r == cancel_game(game, lamports, clock, acc)
                    post == exit(game, lamports, r)
                    fee == CancellationFee(game)
                    refund == Sub(game.bet_amount, fee)
                IN  /\ game.status \in {"WaitingForPlayer", "PlayersReady", "CommitmentsReady",
                                        "RevealingPhase"} =>
                           r.err = "Ok" /\ post.game = [game EXCEPT !.status = "Cancelled"]
                    /\ game.status = "Resolved" =>
                           /\ r.err = "AlreadyResolved"
                           /\ post.game = game
                           /\ post.lamports = lamports
                    /\ OneRevealed =>
                           /\ Add(refund, fee) = game.bet_amount
                           /\ post.lamports =
                                  Credit(Credit(Credit(Debit(lamports, Escrow, Pot(game)),
                                                       acc.player_a, refund),
                                                acc.player_b, refund),
                                         acc.house_wallet, MulSmall(fee, 2))
                           /\ post.lamports =
                                  cancel_game(Unrevealed(game), lamports, clock, acc).lamports

C27_Witness ==
    /\ Created
    /\ game.status = "Cancelled"
    /\ is_none(game.choice_a)
    /\ is_some(game.choice_b)
    /\ last.op = "cancel_game"
    /\ last.err = "Ok"
    /\ lamports[game.player_a] = Sub(InitialLamports[game.player_a], CancellationFee(game))
    /\ lamports[game.player_b] = Sub(InitialLamports[game.player_b], CancellationFee(game))

NonZeroDigests == DigestSample \ {ZeroDigest}
NobodyCommitted == Created /\ game.status = "PlayersReady" /\ CommitmentsSet(game) = 0
RevealRefused(g) ==
    \A p \in Signers, choice \in CoinSide, secret \in SecretSample :
        \A acc \in PassedSample(g, p) :
            reveal_choice(g, lamports, clock, p, choice, secret, acc).err = "InvalidGameStatus"

\* C28: from PlayersReady with no commitment stored, player A committing dA and
\* then player B committing dB gives the same game as B first and then A, with
\* status CommitmentsReady and commitments_complete true; after only one of the
\* two commits, and in every state where a commitment is missing, every reveal
\* by anybody is refused; once both are stored and nobody has revealed, each of
\* the two players is accepted with any strong secret that opens their own
\* commitment.
C28_CommitsCommute ==
    /\ NobodyCommitted =>
           \A dA \in NonZeroDigests, dB \in NonZeroDigests :
               LET a == make_commitment(game, lamports, game.player_a, dA)
                   ab == make_commitment(a.game, a.lamports, game.player_b, dB)
                   b == make_commitment(game, lamports, game.player_b, dB)
                   ba == make_commitment(b.game, b.lamports, game.player_a, dA)
               IN  /\ a.err = "Ok" /\ ab.err = "Ok" /\ b.err = "Ok" /\ ba.err = "Ok"
                   /\ ab.game = ba.game
                   /\ ab.lamports = ba.lamports
                   /\ ab.game = [game EXCEPT !.commitment_a = dA, !.commitment_b = dB,
                                             !.commitments_complete = TRUE,
                                             !.status = "CommitmentsReady"]
                   /\ a.game.status = "PlayersReady" /\ RevealRefused(a.game)
                   /\ b.game.status = "PlayersReady" /\ RevealRefused(b.game)
    /\ (Created /\ CommitmentsSet(game) < 2) => RevealRefused(game)
    /\ (Created /\ game.status = "CommitmentsReady") =>
           \A p \in Participants, choice \in CoinSide, secret \in SecretSample :
               (~weak_secret(secret) /\ generate_commitment(choice, secret) = Stored(p)) =>
                   LET r == Reveal(p, choice, secret, Passed(game.player_a, game.player_b,
                                                             game.house_wallet))
                   IN  /\ r.err = "Ok"
                       /\ r.game.status = "RevealingPhase"
                       /\ ChoiceOf(r.game, p) = Some(choice)
                       /\ is_none(ChoiceOf(r.game, Other(p)))

\* Both orders of committing have been taken and both players can open
C28_Witness ==
    /\ Created
    /\ game.status = "CommitmentsReady"
    /\ game.commitments_complete
    /\ last.op = "make_commitment"
    /\ last.err = "Ok"
    /\ last.emitted[1].player = game.player_a
    /\ \A p \in Participants :
           \E choice \in CoinSide, secret \in SecretSample :
               Reveal(p, choice, secret, Passed(game.player_a, game.player_b,
                                                game.house_wallet)).err = "Ok"

Recorded(g) == (IF is_some(g.choice_a) THEN 1 ELSE 0) + (IF is_some(g.choice_b) THEN 1 ELSE 0)
ResolveManually(g, l, acc) == resolve_game_manual(g, l, clock, acc)
\* The errors of resolve_game_manual, and the only states in which it succeeds
ManualErrors ==
    Created =>
        \A resolver \in Signers :
            \A acc \in PassedSample(game, resolver) :
                LET r == ResolveManually(game, lamports, acc)
                IN  /\ Recorded(game) < 2 => r.err = "NotReadyForResolution"
                    /\ game.status = "Resolved" => r.err = "AlreadyResolved"
                    /\ r.err = "Ok" => Recorded(game) = 2 /\ game.status # "Resolved"
                    /\ r.err # "Ok" => exit(game, lamports, r).game = game
\* The calls that record the second reveal of the game
SecondReveals ==
    {r \in {Reveal(p, choice, secret, Passed(game.player_a, game.player_b, game.house_wallet)) :
                p \in Participants, choice \in CoinSide, secret \in SecretSample} :
        r.err = "Ok"}

\* C29: resolve_game_manual fails with NotReadyForResolution when fewer than
\* two reveals are recorded and with AlreadyResolved when the game is Resolved,
\* succeeds only on a game with both reveals that is not Resolved, and it can
\* resolve a game: a game waiting for its second reveal gets, by some accepted
\* second reveal, into a state where resolve_game_manual succeeds and pays the
\* pot minus the house fee and the house fee out of the escrow.
C29_ManualFallbackResolves ==
    /\ ManualErrors
    /\ (OneRevealed /\ SecondReveals # {}) =>
           \E r \in SecondReveals :
               LET post == exit(game, lamports, r)
                   m == ResolveManually(post.game, post.lamports,
                                        Passed(game.player_a, game.player_b, game.house_wallet))
               IN  /\ m.err = "Ok"
                   /\ m.game.status = "Resolved"
                   /\ m.lamports[Escrow] = <<>>

CommittedStatuses == {"CommitmentsReady", "RevealingPhase", "Resolved"}

\* C30: in every reachable state commitments_complete is true exactly when
\* commitment_a and commitment_b are both non-zero, which is the case in status
\* CommitmentsReady, RevealingPhase and Resolved, never in WaitingForPlayer or
\* PlayersReady, and in Cancelled exactly when the game was cancelled from
\* CommitmentsReady or RevealingPhase; a recorded reveal of either player
\* implies that both commitments are non-zero.
C30_CommitmentsCompleteMeansBoth ==
    /\ [](Created =>
              /\ game.commitments_complete <=> CommitmentsSet(game) = 2
              /\ game.status \in CommittedStatuses => game.commitments_complete
              /\ game.status \in {"WaitingForPlayer", "PlayersReady"} =>
                     ~game.commitments_complete
              /\ game.commitments_complete => game.status \in CommittedStatuses \cup {"Cancelled"}
              /\ Recorded(game) > 0 => CommitmentsSet(game) = 2)
    /\ [][(Created /\ game.status # "Cancelled" /\ game'.status = "Cancelled") =>
              /\ game'.commitments_complete <=> game.status \in CommittedStatuses
              /\ game'.commitment_a = game.commitment_a
              /\ game'.commitment_b = game.commitment_b]_vars

C30_Witness ==
    /\ Created
    /\ game.status = "Cancelled"
    /\ game.commitments_complete
    /\ CommitmentsSet(game) = 2
    /\ Recorded(game) = 1

\* C31: in every reachable non-terminal state with status other than
\* WaitingForPlayer, player_b is set; so a successful cancel_game on a game that
\* is not already Cancelled runs exactly one refund branch (the creator-only
\* one from WaitingForPlayer, taking bet_amount out of the escrow, the
\* both-players one otherwise, taking twice bet_amount) and leaves the escrow
\* empty when it sets status Cancelled.
C31_CancelRunsOneRefundBranch ==
    /\ [](Created =>
              /\ game.status \in {"PlayersReady", "CommitmentsReady", "RevealingPhase"} =>
                     game.player_b # DefaultPubkey
              /\ game.status = "WaitingForPlayer" => game.player_b = DefaultPubkey)
    /\ [][(SuccessfulCancel /\ game.status # "Cancelled") =>
              /\ game'.status = "Cancelled"
              /\ lamports'[Escrow] = <<>>
              /\ lamports[Escrow] = IF game.status = "WaitingForPlayer"
                                    THEN game.bet_amount
                                    ELSE MulSmall(game.bet_amount, 2)
              /\ Len(last'.emitted) = 1]_vars

C31_Witness ==
    /\ Created
    /\ game.status = "Cancelled"
    /\ game.player_b # DefaultPubkey
    /\ CommitmentsSet(game) = 0
    /\ last.op = "cancel_game"
    /\ last.err = "Ok"
    /\ events["GameCancelled"] = 1
    /\ lamports[Escrow] = <<>>
    /\ lamports["house"] = MulSmall(CancellationFee(game), 2)

(***************************************************************************)
(* coin-flipper, programs/coin-flipper/src/lib_optimized.rs                *)
(*                                                                         *)
(* One room (room_id RoomId), its escrow PDA and the global state.  A      *)
(* handler's result holds err ("Ok" or the error code) and the accounts as *)
(* the handler leaves them; a failed instruction leaves nothing behind.    *)
(***************************************************************************)
SELECTION_TIMEOUT_SECONDS_optimized == 120
ROOM_EXPIRY_SECONDS == 7200
MAX_HOUSE_FEE_BPS == 1000
RoomId == 1

RoomOk(rm, gs, l) == [err |-> "Ok", room |-> rm, global_state |-> gs, lamports |-> l]
RoomErr(e, rm, gs, l) == [err |-> e, room |-> rm, global_state |-> gs, lamports |-> l]

\* u64 ^ u64
RECURSIVE XorBits(_, _)
XorBits(a, b) ==
    IF a = 0 /\ b = 0 THEN 0
    ELSE ((a + b) % 2) + 2 * XorBits(a \div 2, b \div 2)

RECURSIVE XorBytes(_, _)
XorBytes(a, b) ==
    IF a = <<>> /\ b = <<>> THEN <<>>
    ELSE <<XorBits(Low(a), Low(b))>> \o XorBytes(Rest(a), Rest(b))

Xor(a, b) == Norm(XorBytes(a, b))

\* Pubkey::to_bytes()[0] of the wallets of the model
first_byte(key) ==
    IF key = "alice" THEN 97
    ELSE IF key = "bob" THEN 98
    ELSE IF key = "carol" THEN 99
    ELSE IF key = "house" THEN 104
    ELSE 0

\* saturating_add of u64
saturating_add(a, b) == IF FitsU64(Add(a, b)) THEN Add(a, b) ELSE U64_MAX

\* saturating_sub of u64
saturating_sub(a, b) == IF Less(a, b) THEN <<>> ELSE Sub(a, b)

initialize(l, authority, house_wallet, house_fee_bps) ==
    IF ~(house_fee_bps <= MAX_HOUSE_FEE_BPS)
    THEN RoomErr("InvalidHouseFee", NoRoom, NoGlobalState, l)
    ELSE RoomOk(NoRoom,
                [authority |-> authority,
                 house_wallet |-> house_wallet,
                 house_fee_bps |-> house_fee_bps,
                 total_games |-> <<>>,
                 total_volume |-> <<>>,
                 is_paused |-> FALSE],
                l)

\* require!(ctx.accounts.authority.key() == global_state.authority, Unauthorized)
\* (variant: any signer is accepted)
authorized_anyone(signer, gs) == TRUE

authorized(signer, gs) == signer = gs.authority

pause_program(rm, gs, l, signer) ==
    IF ~authorized(signer, gs) THEN RoomErr("Unauthorized", rm, gs, l)
    ELSE RoomOk(rm, [gs EXCEPT !.is_paused = TRUE], l)

unpause_program(rm, gs, l, signer) ==
    IF ~authorized(signer, gs) THEN RoomErr("Unauthorized", rm, gs, l)
    ELSE RoomOk(rm, [gs EXCEPT !.is_paused = FALSE], l)

create_room_optimized(gs, l, clk, creator, room_id, bet_amount) ==
    IF gs.is_paused THEN RoomErr("ProgramPaused", NoRoom, gs, l)
    ELSE IF ~(LessEq(MIN_BET_AMOUNT, bet_amount) /\ LessEq(bet_amount, MAX_BET_AMOUNT))
    THEN RoomErr("InvalidBetAmount", NoRoom, gs, l)
    ELSE
    LET t == transfer(l, creator, Escrow, bet_amount)
    IN  IF ~t.ok THEN RoomErr("TransferFailed", NoRoom, gs, l)
        ELSE RoomOk([room_id |-> room_id,
                     creator |-> creator,
                     player_1 |-> creator,
                     player_2 |-> DefaultPubkey,
                     bet_amount |-> bet_amount,
                     status |-> "WaitingForPlayer",
                     player_1_selection |-> None,
                     player_2_selection |-> None,
                     created_at |-> clk.unix_timestamp,
                     selection_deadline |-> 0,
                     coin_result |-> None,
                     winner |-> None,
                     total_pot |-> bet_amount],
                    gs, t.lamports)

join_room_optimized(rm, gs, l, clk, joiner) ==
    \* constraint of JoinRoom, and the same require! in the handler
    IF rm.status # "WaitingForPlayer" THEN RoomErr("RoomNotAvailable", rm, gs, l)
    ELSE IF gs.is_paused THEN RoomErr("ProgramPaused", rm, gs, l)
    ELSE IF ~(clk.unix_timestamp - rm.created_at < ROOM_EXPIRY_SECONDS)
    THEN RoomErr("RoomExpired", rm, gs, l)
    ELSE IF joiner = rm.creator THEN RoomErr("CannotJoinOwnRoom", rm, gs, l)
    ELSE
    LET t == transfer(l, joiner, Escrow, rm.bet_amount)
    IN  IF ~t.ok THEN RoomErr("TransferFailed", rm, gs, l)
        ELSE RoomOk([rm EXCEPT !.player_2 = joiner,
                               !.status = "SelectionsPending",
                               !.selection_deadline =
                                   clk.unix_timestamp + SELECTION_TIMEOUT_SECONDS_optimized,
                               !.total_pot = MulSmall(rm.bet_amount, 2)],
                    gs, t.lamports)

\* (variant: the deadline itself is outside the window)
within_time_limit_exclusive(now, selection_deadline) == now < selection_deadline

\* require!(clock.unix_timestamp <= room.selection_deadline, SelectionTimeout)
within_time_limit(now, selection_deadline) == now <= selection_deadline

\* (variant: a second selection has to differ from the first)
both_selected_and_differ(rm) ==
    /\ is_some(rm.player_1_selection)
    /\ is_some(rm.player_2_selection)
    /\ rm.player_1_selection # rm.player_2_selection

\* "Check if both players have selected"
both_selected(rm) == is_some(rm.player_1_selection) /\ is_some(rm.player_2_selection)

make_selection_optimized(rm, gs, l, clk, player, selection) ==
    IF rm.status # "SelectionsPending" THEN RoomErr("InvalidRoomStatus", rm, gs, l)
    ELSE IF ~within_time_limit(clk.unix_timestamp, rm.selection_deadline)
    THEN RoomErr("SelectionTimeout", rm, gs, l)
    ELSE IF player = rm.player_1 /\ ~is_none(rm.player_1_selection)
    THEN RoomErr("AlreadySelected", rm, gs, l)
    ELSE IF player # rm.player_1 /\ player = rm.player_2 /\ ~is_none(rm.player_2_selection)
    THEN RoomErr("AlreadySelected", rm, gs, l)
    ELSE IF player # rm.player_1 /\ player # rm.player_2 THEN RoomErr("NotInRoom", rm, gs, l)
    ELSE
    LET r1 == IF player = rm.player_1
              THEN [rm EXCEPT !.player_1_selection = Some(selection)]
              ELSE [rm EXCEPT !.player_2_selection = Some(selection)]
        r2 == IF both_selected(r1) THEN [r1 EXCEPT !.status = "Resolving"] ELSE r1
    IN  RoomOk(r2, gs, l)

\* entropy_sources folded with ^= source.wrapping_mul(7919 + i)
RECURSIVE fold_entropy(_, _, _)
fold_entropy(entropy_sources, i, combined_entropy) ==
    IF i > Len(entropy_sources) THEN combined_entropy
    ELSE fold_entropy(entropy_sources, i + 1,
                      Xor(combined_entropy,
                          wrapping_mul(entropy_sources[i], FromInt(7919 + (i - 1)))))

coin_result_optimized(rm, clk) ==
    LET entropy_sources == <<FromInt(clk.unix_timestamp), FromInt(clk.slot),
                             FromInt(rm.room_id), FromInt(first_byte(rm.player_1)),
                             FromInt(first_byte(rm.player_2))>>
        combined_entropy == fold_entropy(entropy_sources, 1, <<>>)
    IN  IF IsEven(combined_entropy) THEN "Heads" ELSE "Tails"

\* "Determine winner based on selections": the player, or None at the
\* InvalidGameState arm
winner_of(p1_selection, p2_selection, coin_result, player_1, player_2) ==
    IF p1_selection = coin_result THEN Some(player_1)
    ELSE IF p2_selection = coin_result THEN Some(player_2)
    ELSE None

\* The accounts an instruction on a room is given besides room, escrow and signer
RoomPassed(p1, p2, h) == [player_1 |-> p1, player_2 |-> p2, house_wallet |-> h]

resolve_game_optimized(rm, gs, l, clk, acc) ==
    IF rm.status # "Resolving" THEN RoomErr("InvalidRoomStatus", rm, gs, l)
    ELSE IF acc.house_wallet # gs.house_wallet THEN RoomErr("InvalidHouseWallet", rm, gs, l)
    ELSE IF ~both_selected(rm) THEN RoomErr("MissingSelections", rm, gs, l)
    ELSE
    LET coin_result == coin_result_optimized(rm, clk)
        r1 == [rm EXCEPT !.coin_result = Some(coin_result)]
        winner == winner_of(unwrap(rm.player_1_selection), unwrap(rm.player_2_selection),
                            coin_result, rm.player_1, rm.player_2)
        winner_account == IF winner = Some(rm.player_1) THEN acc.player_1 ELSE acc.player_2
        total_pot == rm.total_pot
        house_fee == DivSmall(MulSmall(total_pot, gs.house_fee_bps), 10000)
        winner_payout == saturating_sub(total_pot, house_fee)
        t1 == IF Less(<<>>, winner_payout) THEN transfer(l, Escrow, winner_account, winner_payout)
              ELSE [ok |-> TRUE, lamports |-> l]
        t2 == IF Less(<<>>, house_fee)
              THEN transfer(t1.lamports, Escrow, acc.house_wallet, house_fee)
              ELSE [ok |-> TRUE, lamports |-> t1.lamports]
    IN  IF is_none(winner) THEN RoomErr("InvalidGameState", r1, gs, l)
        ELSE IF ~t1.ok THEN RoomErr("TransferFailed", r1, gs, l)
        ELSE IF ~t2.ok THEN RoomErr("TransferFailed", r1, gs, t1.lamports)
        ELSE RoomOk([r1 EXCEPT !.winner = winner, !.status = "Completed"],
                    [gs EXCEPT !.total_games = saturating_add(@, FromInt(1)),
                               !.total_volume = saturating_add(@, total_pot)],
                    t2.lamports)

\* (variant: the refund is due from the deadline on)
deadline_passed_inclusive(now, selection_deadline) == now >= selection_deadline

\* clock.unix_timestamp > room.selection_deadline
deadline_passed(now, selection_deadline) == now > selection_deadline

handle_timeout_optimized(rm, gs, l, clk, acc) ==
    \* constraint of HandleTimeout
    IF rm.status # "SelectionsPending" THEN RoomErr("InvalidRoomStatus", rm, gs, l)
    ELSE IF ~(rm.status = "SelectionsPending"
              /\ deadline_passed(clk.unix_timestamp, rm.selection_deadline))
    THEN RoomErr("InvalidTimeoutCondition", rm, gs, l)
    ELSE
    LET refund_amount == rm.bet_amount
        t1 == transfer(l, Escrow, acc.player_1, refund_amount)
        t2 == IF rm.player_2 # DefaultPubkey
              THEN transfer(t1.lamports, Escrow, acc.player_2, refund_amount)
              ELSE [ok |-> TRUE, lamports |-> t1.lamports]
    IN  IF ~t1.ok THEN RoomErr("TransferFailed", rm, gs, l)
        ELSE IF ~t2.ok THEN RoomErr("TransferFailed", rm, gs, t1.lamports)
        ELSE RoomOk([rm EXCEPT !.status = "Cancelled"], gs, t2.lamports)

\* The GameRoom account after `close = rent_collector`
ClosedRoom == [status |-> "Closed"]

cleanup_expired_room(rm, gs, l, clk) ==
    IF ~(rm.status \in {"Completed", "Cancelled"}
         /\ clk.unix_timestamp - rm.created_at > ROOM_EXPIRY_SECONDS)
    THEN RoomErr("CannotCleanupRoom", rm, gs, l)
    ELSE RoomOk(ClosedRoom, gs, l)

(***************************************************************************)
(* The state machine of lib_optimized.rs                                   *)
(***************************************************************************)
MaxRoomTicks == 3

FeeSample == {300, MAX_HOUSE_FEE_BPS + 1}
AuthoritySample == {"carol"}
RoomBetSample == {Sub(MIN_BET_AMOUNT, FromInt(1)), MIN_BET_AMOUNT, MAX_BET_AMOUNT,
                  Add(MAX_BET_AMOUNT, FromInt(1))}

\* The player_1 and player_2 AccountInfo of ResolveGame and HandleTimeout carry
\* no constraint: the recorded keys, or the caller's own wallet for both
RoomPassedSample(rm, gs, caller) ==
    {RoomPassed(rm.player_1, rm.player_2, gs.house_wallet),
     RoomPassed(caller, caller, gs.house_wallet),
     RoomPassed(rm.player_1, rm.player_2, caller)}

RoomStep(op, r) ==
    /\ room' = IF r.err = "Ok" THEN r.room ELSE room
    /\ global_state' = IF r.err = "Ok" THEN r.global_state ELSE global_state
    /\ lamports' = IF r.err = "Ok" THEN r.lamports ELSE lamports
    /\ last' = [op |-> op, err |-> r.err, emitted |-> <<>>]
    /\ UNCHANGED <<clock, game, events>>

RoomInit ==
    /\ game = NoGame
    /\ events = [k \in EventKinds |-> 0]
    /\ lamports = InitialLamports
    /\ clock = [slot |-> 0, unix_timestamp |-> 0]
    /\ last = [op |-> "init", err |-> "Ok", emitted |-> <<>>]
    /\ room = NoRoom
    /\ global_state = NoGlobalState

Initialize ==
    /\ global_state = NoGlobalState
    /\ \E authority \in AuthoritySample, house_wallet \in HouseWallets, house_fee_bps \in FeeSample :
           RoomStep("initialize", initialize(lamports, authority, house_wallet, house_fee_bps))

PauseProgram ==
    /\ global_state # NoGlobalState
    /\ \E signer \in Signers :
           RoomStep("pause_program", pause_program(room, global_state, lamports, signer))

UnpauseProgram ==
    /\ global_state # NoGlobalState
    /\ \E signer \in Signers :
           RoomStep("unpause_program", unpause_program(room, global_state, lamports, signer))

RoomExists == room \notin {NoRoom, ClosedRoom}

CreateRoomOptimized ==
    /\ global_state # NoGlobalState
    /\ room = NoRoom
    /\ \E creator \in Creators, bet_amount \in RoomBetSample :
           RoomStep("create_room",
                    create_room_optimized(global_state, lamports, clock, creator, RoomId,
                                          bet_amount))

JoinRoomOptimized ==
    /\ RoomExists
    /\ \E joiner \in Signers :
           RoomStep("join_room", join_room_optimized(room, global_state, lamports, clock, joiner))

MakeSelectionOptimized ==
    /\ RoomExists
    /\ \E player \in Signers, selection \in CoinSide :
           RoomStep("make_selection",
                    make_selection_optimized(room, global_state, lamports, clock, player,
                                             selection))

ResolveGameOptimized ==
    /\ RoomExists
    /\ \E resolver \in Signers : \E acc \in RoomPassedSample(room, global_state, resolver) :
           RoomStep("resolve_game",
                    resolve_game_optimized(room, global_state, lamports, clock, acc))

HandleTimeoutOptimized ==
    /\ RoomExists
    /\ \E caller \in Signers : \E acc \in RoomPassedSample(room, global_state, caller) :
           RoomStep("handle_timeout",
                    handle_timeout_optimized(room, global_state, lamports, clock, acc))

CleanupExpiredRoom ==
    /\ RoomExists
    /\ RoomStep("cleanup_expired_room",
                cleanup_expired_room(room, global_state, lamports, clock))

TickOptimized ==
    /\ RoomExists
    /\ clock.slot < MaxRoomTicks
    /\ \E d \in {1, SELECTION_TIMEOUT_SECONDS_optimized, ROOM_EXPIRY_SECONDS} :
           clock' = [slot |-> clock.slot + 1, unix_timestamp |-> clock.unix_timestamp + d]
    /\ last' = [op |-> "tick", err |-> "Ok", emitted |-> <<>>]
    /\ UNCHANGED <<game, lamports, events, room, global_state>>

OptimizedNext ==
    \/ Initialize
    \/ PauseProgram
    \/ UnpauseProgram
    \/ CreateRoomOptimized
    \/ JoinRoomOptimized
    \/ MakeSelectionOptimized
    \/ ResolveGameOptimized
    \/ HandleTimeoutOptimized
    \/ CleanupExpiredRoom
    \/ TickOptimized

OptimizedSpec == RoomInit /\ [][OptimizedNext]_vars

(***************************************************************************)
(* Properties of lib_optimized.rs                                          *)
(***************************************************************************)
HonestAccounts == RoomPassed(room.player_1, room.player_2, global_state.house_wallet)
Resolving == RoomExists /\ room.status = "Resolving"

\* C32: for every room in status Resolving and every coin result, one of the
\* two players' selections equals the coin result, so resolve_game never takes
\* the InvalidGameState branch: with the recorded accounts it completes the room
\* with a winner.
C32_OnePlayerAlwaysCorrect ==
    Resolving =>
        /\ \A coin_result \in CoinSide :
               is_some(winner_of(unwrap(room.player_1_selection),
                                 unwrap(room.player_2_selection),
                                 coin_result, room.player_1, room.player_2))
        /\ LET r == resolve_game_optimized(room, global_state, lamports, clock, HonestAccounts)
           IN  /\ r.err = "Ok"
               /\ r.room.status = "Completed"
               /\ is_some(r.room.winner)

Funded == RoomExists /\ room.status \in {"WaitingForPlayer", "SelectionsPending", "Resolving"}
\* Moments at or after the present one
LaterRoomClocks ==
    {[slot |-> clock.slot + k, unix_timestamp |-> clock.unix_timestamp + d] :
        k \in {0, 1}, d \in {0, 1, SELECTION_TIMEOUT_SECONDS_optimized + 1, ROOM_EXPIRY_SECONDS + 1}}
PaidOut(r) ==
    /\ r.err = "Ok"
    /\ r.room.status \in {"Completed", "Cancelled"}
    /\ r.lamports[Escrow] = <<>>
\* Every instruction on the room, by every signer, at the present or a later moment
RoomCallsOptimized ==
    UNION {{join_room_optimized(room, global_state, lamports, clk, s) : s \in Signers}
           \cup {make_selection_optimized(room, global_state, lamports, clk, s, c) :
                     s \in Signers, c \in CoinSide}
           \cup UNION {{resolve_game_optimized(room, global_state, lamports, clk, acc),
                        handle_timeout_optimized(room, global_state, lamports, clk, acc)} :
                           acc \in UNION {RoomPassedSample(room, global_state, s) : s \in Signers}}
           \cup {cleanup_expired_room(room, global_state, lamports, clk)} :
               clk \in LaterRoomClocks}

\* C33: every room holding escrowed funds can still be paid out.  A room that
\* waits for a second player returns the creator's bet without anybody joining;
\* a room with selections pending is refunded by handle_timeout; a room in
\* Resolving (the two players chose different sides or the same side) is paid
\* out by resolve_game: each at the present or some later moment, ending Completed
\* or Cancelled with an empty escrow.
C33_FundsCanAlwaysBePaidOut ==
    Funded =>
        \E clk \in LaterRoomClocks :
            \/ /\ room.status # "Resolving"
               /\ PaidOut(handle_timeout_optimized(room, global_state, lamports, clk,
                                                   HonestAccounts))
            \/ /\ room.status = "Resolving"
               /\ PaidOut(resolve_game_optimized(room, global_state, lamports, clk,
                                                 HonestAccounts))

SelectionsPending == RoomExists /\ room.status = "SelectionsPending"
RoomCall(op) == last'.op = op /\ last'.err = "Ok"

\* C34: for a room in SelectionsPending the selection window and the timeout
\* refund never overlap.  selection_deadline is the join time plus 120 s and is
\* not changed afterwards; make_selection is accepted only while now <=
\* selection_deadline and fails with SelectionTimeout after it, handle_timeout
\* is accepted only when now > selection_deadline and fails with
\* InvalidTimeoutCondition before; so no moment accepts both, no selection is
\* recorded after the deadline and no refund is made before it.  handle_timeout
\* only acts on SelectionsPending and resolve_game only on Resolving, and a room
\* that is Cancelled or Completed stays so: no room is both refunded and paid.
C34_SelectionWindowAndTimeoutDisjoint ==
    /\ [](SelectionsPending =>
              LET now == clock.unix_timestamp
                  selections == {make_selection_optimized(room, global_state, lamports, clock,
                                                          s, c) : s \in Signers, c \in CoinSide}
                  timeouts == {handle_timeout_optimized(room, global_state, lamports, clock, acc) :
                                   acc \in UNION {RoomPassedSample(room, global_state, s) :
                                                      s \in Signers}}
              IN  /\ now <= room.selection_deadline =>
                         /\ \A r \in timeouts : r.err = "InvalidTimeoutCondition"
                         /\ \E r \in selections : r.err = "Ok"
                  /\ now > room.selection_deadline =>
                         /\ \A r \in selections : r.err = "SelectionTimeout"
                         /\ \E r \in timeouts : r.err = "Ok"
                  /\ ~(\E r \in selections, t \in timeouts : r.err = "Ok" /\ t.err = "Ok"))
    /\ [](RoomExists =>
              /\ room.status = "Cancelled" => is_none(room.winner) /\ is_none(room.coin_result)
              /\ room.status = "Completed" => is_some(room.winner)
              /\ room.status \in {"Cancelled", "Completed"} => lamports[Escrow] = <<>>)
    /\ [][/\ RoomCall("join_room") =>
                 room'.selection_deadline =
                     clock.unix_timestamp + SELECTION_TIMEOUT_SECONDS_optimized
          /\ (RoomExists /\ room.status # "WaitingForPlayer" /\ room' # ClosedRoom) =>
                 room'.selection_deadline = room.selection_deadline
          /\ RoomCall("make_selection") =>
                 /\ room.status = "SelectionsPending"
                 /\ clock.unix_timestamp <= room.selection_deadline
          /\ RoomCall("handle_timeout") =>
                 /\ room.status = "SelectionsPending"
                 /\ clock.unix_timestamp > room.selection_deadline
                 /\ room'.status = "Cancelled"
          /\ RoomCall("resolve_game") =>
                 /\ room.status = "Resolving"
                 /\ room'.status = "Completed"
          /\ (RoomExists /\ room.status \in {"Cancelled", "Completed"}) =>
                 /\ room' \in {room, ClosedRoom}
                 /\ lamports' = lamports]_vars

\* A selection made at the deadline itself, the refund one second later
C34_Witness ==
    /\ RoomExists
    /\ room.status = "Cancelled"
    /\ last.op = "handle_timeout"
    /\ last.err = "Ok"
    /\ clock.unix_timestamp = room.selection_deadline + 1
    /\ clock.slot = 2
    /\ is_some(room.player_2_selection)
    /\ is_none(room.player_1_selection)

(***************************************************************************)
(* coin-flipper, programs/coin-flipper/src/lib_CORRECTED.rs                *)
(*                                                                         *)
(* The same accounts as above; each player escrows bet_amount +            *)
(* RESOLUTION_FEE_PER_PLAYER and the second make_selection resolves the    *)
(* room in the same call.  Clock has an epoch here.                        *)
(***************************************************************************)
MAX_BET_AMOUNT_CORRECTED == Mul(FromInt(1000000), FromInt(1000000))
RESOLUTION_FEE_PER_PLAYER == FromInt(1000000)
SELECTION_TIMEOUT_SECONDS == 600

\* validate_escrow_balance: escrow_account.lamports() >= required_amount
validate_escrow_balance(l, required_amount) == LessEq(required_amount, l[Escrow])

\* (variant: the program is never considered paused)
program_paused_never(gs) == FALSE

\* require!(!global_state.is_paused, ProgramPaused) fails
program_paused(gs) == gs.is_paused

\* (variant: only the bet is escrowed)
total_contribution_bet_only(bet_amount) == bet_amount

\* bet_amount + RESOLUTION_FEE_PER_PLAYER
total_contribution(bet_amount) == Add(bet_amount, RESOLUTION_FEE_PER_PLAYER)

create_room(gs, l, clk, creator, room_id, bet_amount) ==
    IF program_paused(gs) THEN RoomErr("ProgramPaused", NoRoom, gs, l)
    ELSE IF ~(LessEq(MIN_BET_AMOUNT, bet_amount) /\ LessEq(bet_amount, MAX_BET_AMOUNT_CORRECTED))
    THEN RoomErr("InvalidBetAmount", NoRoom, gs, l)
    ELSE
    LET t == transfer(l, creator, Escrow, total_contribution(bet_amount))
    IN  IF ~t.ok THEN RoomErr("TransferFailed", NoRoom, gs, l)
        ELSE RoomOk([room_id |-> room_id,
                     creator |-> creator,
                     player_1 |-> creator,
                     player_2 |-> DefaultPubkey,
                     bet_amount |-> bet_amount,
                     status |-> "WaitingForPlayer",
                     player_1_selection |-> None,
                     player_2_selection |-> None,
                     created_at |-> clk.unix_timestamp,
                     vrf_result |-> None,
                     winner |-> None,
                     total_pot |-> bet_amount],
                    gs, t.lamports)

join_room(rm, gs, l, clk, joiner) ==
    \* constraint of JoinRoom
    IF rm.status # "WaitingForPlayer" THEN RoomErr("RoomNotAvailable", rm, gs, l)
    ELSE IF program_paused(gs) THEN RoomErr("ProgramPaused", rm, gs, l)
    ELSE IF joiner = rm.creator THEN RoomErr("CannotJoinOwnRoom", rm, gs, l)
    ELSE
    LET room_age == clk.unix_timestamp - rm.created_at
        t == transfer(l, joiner, Escrow, total_contribution(rm.bet_amount))
        total_pot == MulSmall(rm.bet_amount, 2)
    IN  IF ~(room_age < ROOM_EXPIRY_SECONDS) THEN RoomErr("RoomExpired", rm, gs, l)
        ELSE IF ~t.ok THEN RoomErr("TransferFailed", rm, gs, l)
        ELSE IF ~FitsU64(total_pot) THEN RoomErr("ArithmeticOverflow", rm, gs, t.lamports)
        ELSE RoomOk([rm EXCEPT !.player_2 = joiner,
                               !.status = "SelectionsPending",
                               !.total_pot = total_pot],
                    gs, t.lamports)

\* u64 >> n
shr(a, n) ==
    IF Len(a) <= n \div 8 THEN <<>>
    ELSE LET pow == [k \in 0..7 |-> IF k = 0 THEN 1 ELSE IF k = 1 THEN 2 ELSE IF k = 2 THEN 4
                                    ELSE IF k = 3 THEN 8 ELSE IF k = 4 THEN 16
                                    ELSE IF k = 5 THEN 32 ELSE IF k = 6 THEN 64 ELSE 128]
         IN  DivSmall(Norm(SubSeq(a, (n \div 8) + 1, Len(a))), pow[n % 8])

\* 0xff51afd7ed558ccd and 0xc4ceb9fe1a85ec53
MixMultiplier1 == <<205, 140, 85, 237, 215, 175, 81, 255>>
MixMultiplier2 == <<83, 236, 133, 26, 254, 185, 206, 196>>

entropy_of(rm, clk, player) ==
    Xor(Xor(Xor(Xor(FromInt(clk.unix_timestamp), FromInt(clk.slot)), FromInt(clk.epoch)),
            FromInt(rm.room_id)),
        FromInt(first_byte(player)))

seed_of(entropy) ==
    LET s1 == Xor(entropy, shr(entropy, 33))
        s2 == wrapping_mul(s1, MixMultiplier1)
        s3 == Xor(s2, shr(s2, 33))
        s4 == wrapping_mul(s3, MixMultiplier2)
    IN  Xor(s4, shr(s4, 33))

coin_result_of(seed) == IF IsEven(seed) THEN "Heads" ELSE "Tails"

\* vrf_bytes: entropy in bytes 0..8, seed in bytes 8..16, zeros after
vrf_bytes(entropy, seed) ==
    to_le_bytes(entropy) \o to_le_bytes(seed) \o [i \in 1..16 |-> 0]

\* (variant: equal selections are resolved like any other game)
tie_never(p1_selection, p2_selection) == FALSE

\* "Handle tie scenario (both players chose the same side)"
tie(p1_selection, p2_selection) == p1_selection = p2_selection

\* (variant: the resolution fees stay in the escrow)
total_house_collection_fee_only(house_fee) == house_fee

\* house_fee + (RESOLUTION_FEE_PER_PLAYER * 2)
total_house_collection_of(house_fee) == Add(house_fee, MulSmall(RESOLUTION_FEE_PER_PLAYER, 2))

\* The auto-resolution of make_selection; rm holds both selections
auto_resolve(rm, gs, l, clk, player, acc) ==
    LET p1_selection == unwrap(rm.player_1_selection)
        p2_selection == unwrap(rm.player_2_selection)
        entropy == entropy_of(rm, clk, player)
        seed == seed_of(entropy)
        coin_result == coin_result_of(seed)
        r1 == [rm EXCEPT !.vrf_result = Some(vrf_bytes(entropy, seed))]
        \* tie
        refund_per_player == total_contribution(rm.bet_amount)
        total_refund == MulSmall(refund_per_player, 2)
        f1 == transfer(l, Escrow, acc.player_1, refund_per_player)
        f2 == transfer(f1.lamports, Escrow, acc.player_2, refund_per_player)
        \* winner
        winner == winner_of(p1_selection, p2_selection, coin_result, rm.player_1, rm.player_2)
        winner_account == IF winner = Some(rm.player_1) THEN acc.player_1 ELSE acc.player_2
        total_pot == rm.total_pot
        house_fee == DivSmall(MulSmall(total_pot, gs.house_fee_bps), 10000)
        winner_payout == Sub(total_pot, house_fee)
        total_house_collection == total_house_collection_of(house_fee)
        total_required == Add(winner_payout, total_house_collection)
        t1 == IF Less(<<>>, winner_payout) THEN transfer(l, Escrow, winner_account, winner_payout)
              ELSE [ok |-> TRUE, lamports |-> l]
        t2 == IF Less(<<>>, total_house_collection)
              THEN transfer(t1.lamports, Escrow, acc.house_wallet, total_house_collection)
              ELSE [ok |-> TRUE, lamports |-> t1.lamports]
    IN  IF tie(p1_selection, p2_selection)
        THEN IF ~validate_escrow_balance(l, total_refund)
             THEN RoomErr("InsufficientEscrowFunds", r1, gs, l)
             ELSE IF ~f1.ok THEN RoomErr("TransferFailed", r1, gs, l)
             ELSE IF ~f2.ok THEN RoomErr("TransferFailed", r1, gs, f1.lamports)
             ELSE RoomOk([r1 EXCEPT !.status = "Completed", !.winner = None], gs, f2.lamports)
        ELSE IF is_none(winner) THEN RoomErr("InvalidGameState", r1, gs, l)
        ELSE IF Less(total_pot, house_fee) THEN RoomErr("ArithmeticUnderflow", r1, gs, l)
        ELSE IF ~validate_escrow_balance(l, total_required)
        THEN RoomErr("InsufficientEscrowFunds", r1, gs, l)
        ELSE IF ~t1.ok THEN RoomErr("TransferFailed", r1, gs, l)
        ELSE IF ~t2.ok THEN RoomErr("TransferFailed", r1, gs, t1.lamports)
        ELSE RoomOk([r1 EXCEPT !.winner = winner, !.status = "Completed"],
                    [gs EXCEPT !.total_games = saturating_add(@, FromInt(1)),
                               !.total_volume = saturating_add(@, total_pot)],
                    t2.lamports)

\* The constraints on player_1, player_2 and house_wallet of MakeSelection and
\* ResolveGame: the error of the first that fails, or "Ok"
payout_accounts(rm, gs, acc) ==
    IF acc.player_1 # rm.player_1 THEN "InvalidPlayer"
    ELSE IF acc.player_2 # rm.player_2 THEN "InvalidPlayer"
    ELSE IF acc.house_wallet # gs.house_wallet THEN "InvalidHouseWallet"
    ELSE "Ok"

make_selection(rm, gs, l, clk, player, selection, acc) ==
    \* constraints of MakeSelection
    IF rm.status # "SelectionsPending" THEN RoomErr("InvalidRoomStatus", rm, gs, l)
    ELSE IF ~(player = rm.player_1 \/ player = rm.player_2) THEN RoomErr("NotInRoom", rm, gs, l)
    ELSE IF payout_accounts(rm, gs, acc) # "Ok"
    THEN RoomErr(payout_accounts(rm, gs, acc), rm, gs, l)
    \* the handler
    ELSE IF player = rm.player_1 /\ ~is_none(rm.player_1_selection)
    THEN RoomErr("AlreadySelected", rm, gs, l)
    ELSE IF player # rm.player_1 /\ ~is_none(rm.player_2_selection)
    THEN RoomErr("AlreadySelected", rm, gs, l)
    ELSE
    LET r1 == IF player = rm.player_1
              THEN [rm EXCEPT !.player_1_selection = Some(selection)]
              ELSE [rm EXCEPT !.player_2_selection = Some(selection)]
    IN  IF both_selected(r1) THEN auto_resolve(r1, gs, l, clk, player, acc)
        ELSE RoomOk(r1, gs, l)

resolve_game(rm, gs, l, acc) ==
    \* constraints of ResolveGame
    IF rm.status # "Resolving" THEN RoomErr("InvalidRoomStatus", rm, gs, l)
    ELSE IF payout_accounts(rm, gs, acc) # "Ok"
    THEN RoomErr(payout_accounts(rm, gs, acc), rm, gs, l)
    \* the handler
    ELSE RoomErr("InvalidRoomStatus", rm, gs, l)

\* The moment after which handle_timeout is allowed, or None for a status it
\* does not handle
timeout_threshold(rm) ==
    IF rm.status = "WaitingForPlayer" THEN Some(rm.created_at + ROOM_EXPIRY_SECONDS)
    ELSE IF rm.status = "SelectionsPending" THEN Some(rm.created_at + SELECTION_TIMEOUT_SECONDS)
    ELSE None

handle_timeout(rm, gs, l, clk, acc) ==
    \* constraints of HandleTimeout
    IF acc.player_1 # rm.player_1 THEN RoomErr("InvalidPlayer", rm, gs, l)
    ELSE IF acc.player_2 # rm.player_2 THEN RoomErr("InvalidPlayer", rm, gs, l)
    \* the handler
    ELSE IF is_none(timeout_threshold(rm)) THEN RoomErr("InvalidTimeoutCondition", rm, gs, l)
    ELSE IF ~(clk.unix_timestamp > unwrap(timeout_threshold(rm)))
    THEN RoomErr("TimeoutNotReached", rm, gs, l)
    ELSE
    LET refund_amount == total_contribution(rm.bet_amount)
        total_refund_needed == IF rm.player_2 # DefaultPubkey THEN MulSmall(refund_amount, 2)
                               ELSE refund_amount
        t1 == transfer(l, Escrow, acc.player_1, refund_amount)
        t2 == IF rm.player_2 # DefaultPubkey
              THEN transfer(t1.lamports, Escrow, acc.player_2, refund_amount)
              ELSE [ok |-> TRUE, lamports |-> t1.lamports]
    IN  IF ~validate_escrow_balance(l, total_refund_needed)
        THEN RoomErr("InsufficientEscrowFunds", rm, gs, l)
        ELSE IF ~t1.ok THEN RoomErr("TransferFailed", rm, gs, l)
        ELSE IF ~t2.ok THEN RoomErr("TransferFailed", rm, gs, t1.lamports)
        ELSE RoomOk([rm EXCEPT !.status = "Cancelled"], gs, t2.lamports)

\* (variant: any fee that fits u16 is accepted)
fee_allowed_any(new_fee_bps) == TRUE

\* require!(new_fee_bps <= MAX_HOUSE_FEE_BPS, InvalidHouseFee)
fee_allowed(new_fee_bps) == new_fee_bps <= MAX_HOUSE_FEE_BPS

update_house_fee(rm, gs, l, signer, new_fee_bps) ==
    IF ~authorized(signer, gs) THEN RoomErr("Unauthorized", rm, gs, l)
    ELSE IF ~fee_allowed(new_fee_bps) THEN RoomErr("InvalidHouseFee", rm, gs, l)
    ELSE RoomOk(rm, [gs EXCEPT !.house_fee_bps = new_fee_bps], l)

(***************************************************************************)
(* The state machine of lib_CORRECTED.rs                                   *)
(***************************************************************************)
NewFeeSample == {MAX_HOUSE_FEE_BPS, MAX_HOUSE_FEE_BPS + 1}
CorrectedBetSample == {Sub(MIN_BET_AMOUNT, FromInt(1)), MIN_BET_AMOUNT, MAX_BET_AMOUNT,
                       Add(MAX_BET_AMOUNT_CORRECTED, FromInt(1))}

\* The accounts passed as player_1, player_2 and house_wallet: the recorded
\* ones, or the caller's own wallet for the players, or for the house
CorrectedPassedSample(rm, gs, caller) ==
    {RoomPassed(rm.player_1, rm.player_2, gs.house_wallet),
     RoomPassed(caller, caller, gs.house_wallet),
     RoomPassed(rm.player_1, rm.player_2, caller)}

CorrectedInit ==
    /\ game = NoGame
    /\ events = [k \in EventKinds |-> 0]
    /\ lamports = InitialLamports
    /\ clock = [slot |-> 0, unix_timestamp |-> 0, epoch |-> 0]
    /\ last = [op |-> "init", err |-> "Ok", emitted |-> <<>>]
    /\ room = NoRoom
    /\ global_state = NoGlobalState

UpdateHouseFee ==
    /\ global_state # NoGlobalState
    /\ \E signer \in Signers, new_fee_bps \in NewFeeSample :
           RoomStep("update_house_fee",
                    update_house_fee(room, global_state, lamports, signer, new_fee_bps))

CreateRoom ==
    /\ global_state # NoGlobalState
    /\ room = NoRoom
    /\ \E creator \in Creators, bet_amount \in CorrectedBetSample :
           RoomStep("create_room",
                    create_room(global_state, lamports, clock, creator, RoomId, bet_amount))

JoinRoom ==
    /\ RoomExists
    /\ \E joiner \in Signers :
           RoomStep("join_room", join_room(room, global_state, lamports, clock, joiner))

MakeSelection ==
    /\ RoomExists
    /\ \E player \in Signers, selection \in CoinSide :
       \E acc \in CorrectedPassedSample(room, global_state, player) :
           RoomStep("make_selection",
                    make_selection(room, global_state, lamports, clock, player, selection, acc))

ResolveGame ==
    /\ RoomExists
    /\ \E resolver \in Signers : \E acc \in CorrectedPassedSample(room, global_state, resolver) :
           RoomStep("resolve_game", resolve_game(room, global_state, lamports, acc))

HandleTimeout ==
    /\ RoomExists
    /\ \E caller \in Signers : \E acc \in CorrectedPassedSample(room, global_state, caller) :
           RoomStep("handle_timeout", handle_timeout(room, global_state, lamports, clock, acc))

TickCorrected ==
    /\ RoomExists
    /\ clock.slot < MaxRoomTicks
    /\ \E d \in {1, SELECTION_TIMEOUT_SECONDS, ROOM_EXPIRY_SECONDS} :
           clock' = [clock EXCEPT !.slot = @ + 1, !.unix_timestamp = @ + d]
    /\ last' = [op |-> "tick", err |-> "Ok", emitted |-> <<>>]
    /\ UNCHANGED <<game, lamports, events, room, global_state>>

CorrectedNext ==
    \/ Initialize
    \/ PauseProgram
    \/ UnpauseProgram
    \/ UpdateHouseFee
    \/ CreateRoom
    \/ JoinRoom
    \/ MakeSelection
    \/ ResolveGame
    \/ HandleTimeout
    \/ TickCorrected

CorrectedSpec == CorrectedInit /\ [][CorrectedNext]_vars

(***************************************************************************)
(* Properties of lib_CORRECTED.rs                                          *)
(***************************************************************************)
RoomOver == RoomExists /\ room.status \in {"Completed", "Cancelled"}
\* What the room's players have deposited and not yet been paid
Deposited ==
    IF ~RoomExists \/ RoomOver THEN <<>>
    ELSE IF room.status = "WaitingForPlayer" THEN total_contribution(room.bet_amount)
    ELSE MulSmall(total_contribution(room.bet_amount), 2)
\* Every call of the four operations on the present room
RoomCalls ==
    UNION {{join_room(room, global_state, lamports, clock, s)}
           \cup {make_selection(room, global_state, lamports, clock, s, c, acc) :
                     c \in CoinSide, acc \in CorrectedPassedSample(room, global_state, s)}
           \cup UNION {{resolve_game(room, global_state, lamports, acc),
                        handle_timeout(room, global_state, lamports, clock, acc)} :
                           acc \in CorrectedPassedSample(room, global_state, s)} :
           s \in Signers}
Received(w) == Sub(lamports'[w], lamports[w])

\* C35: in lib_CORRECTED.rs each player deposits bet_amount +
\* RESOLUTION_FEE_PER_PLAYER, so the escrow holds exactly that amount for a
\* room in WaitingForPlayer, twice that amount for a room in
\* SelectionsPending, and nothing once the room is Completed or Cancelled.
\* The escrow is debited only by the make_selection that completes the room
\* (tie refund or winner resolution) or by the handle_timeout that cancels it,
\* that step pays out everything deposited and nothing more to the players
\* and the house, and on a Completed or Cancelled room every make_selection,
\* resolve_game, handle_timeout and join_room fails and nothing changes the
\* room or any balance again.
C35_EscrowPaidOutExactlyOnce ==
    /\ [](/\ lamports[Escrow] = Deposited
          /\ RoomOver => \A r \in RoomCalls : r.err # "Ok")
    /\ [][/\ Less(lamports'[Escrow], lamports[Escrow]) =>
                 /\ Funded /\ RoomOver'
                 /\ \/ RoomCall("make_selection") /\ room'.status = "Completed"
                    \/ RoomCall("handle_timeout") /\ room'.status = "Cancelled"
                 /\ lamports'[Escrow] = <<>>
                 /\ Add(Add(Received(room.player_1),
                            IF room.player_2 = DefaultPubkey THEN <<>>
                            ELSE Received(room.player_2)),
                        Received(global_state.house_wallet)) = Deposited
                 /\ \A w \in Wallets \ {room.player_1, room.player_2, global_state.house_wallet} :
                        lamports'[w] = lamports[w]
          /\ Less(lamports[Escrow], lamports'[Escrow]) =>
                 /\ \/ RoomCall("create_room") /\ room'.player_1 = room'.creator
                    \/ RoomCall("join_room")
                 /\ Sub(lamports'[Escrow], lamports[Escrow]) = total_contribution(room'.bet_amount)
                 /\ LET payer == IF last'.op = "create_room" THEN room'.player_1 ELSE room'.player_2
                    IN  Sub(lamports[payer], lamports'[payer]) = total_contribution(room'.bet_amount)
          /\ RoomOver => room' = room /\ lamports' = lamports]_vars

C35_Witness ==
    /\ RoomOver
    /\ lamports[Escrow] = <<>>
    /\ lamports # InitialLamports
    /\ last.op \in {"make_selection", "handle_timeout", "join_room", "resolve_game"}
    /\ last.err # "Ok"

\* The coin result recorded in vrf_result (the seed is in bytes 8..16)
RecordedCoin(rm) == coin_result_of(from_le_bytes(SubSeq(unwrap(rm.vrf_result), 9, 16)))
Resolved(rm) == RoomCall("make_selection") /\ room.status = "SelectionsPending"
                    /\ rm.status = "Completed"

TimeoutWithRecordedAccounts == handle_timeout(room, global_state, lamports, clock, HonestAccounts)

\* C37: in lib_CORRECTED.rs handle_timeout succeeds only for a room in
\* WaitingForPlayer more than ROOM_EXPIRY_SECONDS after its creation, or for a
\* room in SelectionsPending once the players have had
\* SELECTION_TIMEOUT_SECONDS since the second player joined; earlier it fails
\* with TimeoutNotReached, and for a Resolving, Completed or Cancelled room it
\* fails with InvalidTimeoutCondition; a failed call leaves room and escrow as
\* they were.  In particular a handle_timeout that directly follows the
\* join_room of the second player, at the same clock, does not succeed.
C37_TimeoutOnlyAfterPhaseDeadline ==
    /\ [](RoomExists =>
            /\ room.status = "WaitingForPlayer" =>
                   TimeoutWithRecordedAccounts.err =
                       IF clock.unix_timestamp > room.created_at + ROOM_EXPIRY_SECONDS
                       THEN "Ok" ELSE "TimeoutNotReached"
            /\ room.status = "SelectionsPending" =>
                   TimeoutWithRecordedAccounts.err \in {"Ok", "TimeoutNotReached"}
            /\ room.status \in {"Resolving", "Completed", "Cancelled"} =>
                   TimeoutWithRecordedAccounts.err = "InvalidTimeoutCondition"
            /\ \A s \in Signers : \A acc \in CorrectedPassedSample(room, global_state, s) :
                   LET r == handle_timeout(room, global_state, lamports, clock, acc)
                   IN  r.err # "Ok" => r.room = room /\ r.lamports = lamports)
    /\ [][last.op = "join_room" /\ last.err = "Ok" /\ last'.op = "handle_timeout"
              => last'.err \in {"TimeoutNotReached", "InvalidPlayer"}]_vars

Configured == global_state # NoGlobalState
HouseFeeOf(total_pot) == DivSmall(MulSmall(total_pot, global_state.house_fee_bps), 10000)

\* C38: in lib_CORRECTED.rs the global configuration changes only through the
\* authority-gated operations.  For every signer other than
\* global_state.authority, pause_program, unpause_program and
\* update_house_fee fail with Unauthorized and leave the global state as it
\* was; is_paused changes only in a successful pause_program or
\* unpause_program and house_fee_bps only in a successful update_house_fee;
\* authority and house_wallet never change.  house_fee_bps never exceeds
\* MAX_HOUSE_FEE_BPS, so the house fee of a room's pot is at most a tenth of
\* the pot and the winner's payout, total_pot minus the fee, is not negative.
C38_ConfigurationIsAuthorityGated ==
    /\ [](Configured =>
            /\ global_state.house_fee_bps <= MAX_HOUSE_FEE_BPS
            /\ \A signer \in Signers \ {global_state.authority} :
                   /\ pause_program(room, global_state, lamports, signer)
                          = RoomErr("Unauthorized", room, global_state, lamports)
                   /\ unpause_program(room, global_state, lamports, signer)
                          = RoomErr("Unauthorized", room, global_state, lamports)
                   /\ \A new_fee_bps \in NewFeeSample \cup {0} :
                          update_house_fee(room, global_state, lamports, signer, new_fee_bps)
                              = RoomErr("Unauthorized", room, global_state, lamports)
            /\ \A new_fee_bps \in NewFeeSample :
                   new_fee_bps > MAX_HOUSE_FEE_BPS =>
                       update_house_fee(room, global_state, lamports, global_state.authority,
                                        new_fee_bps).err = "InvalidHouseFee"
            /\ SelectionsPending =>
                   /\ LessEq(MulSmall(HouseFeeOf(room.total_pot), 10), room.total_pot)
                   /\ LessEq(HouseFeeOf(room.total_pot), room.total_pot))
    /\ [][Configured =>
             /\ global_state'.is_paused # global_state.is_paused =>
                    \/ RoomCall("pause_program") /\ global_state'.is_paused
                    \/ RoomCall("unpause_program") /\ ~global_state'.is_paused
             /\ global_state'.house_fee_bps # global_state.house_fee_bps =>
                    RoomCall("update_house_fee")
             /\ global_state'.authority = global_state.authority
             /\ global_state'.house_wallet = global_state.house_wallet]_vars

C38_Witness ==
    /\ Configured
    /\ global_state.house_fee_bps = MAX_HOUSE_FEE_BPS
    /\ global_state.is_paused
    /\ last.op = "update_house_fee" /\ last.err = "Unauthorized"
    /\ RoomExists /\ room.status = "Completed" /\ room.winner # None

Paused == Configured /\ global_state.is_paused
ClocksFromNow ==
    {[clock EXCEPT !.unix_timestamp = @ + d] :
        d \in {0, 1, SELECTION_TIMEOUT_SECONDS + 1, ROOM_EXPIRY_SECONDS + 1}}
Unselected == {p \in {room.player_1, room.player_2} :
                  is_none(IF p = room.player_1 THEN room.player_1_selection
                          ELSE room.player_2_selection)}

====
